---- MODULE Spec2Model ----
(***************************************************************************)
(* Model of the quantitative signal-validation pipeline of the AQI trading *)
(* system: RiskEngine (portfolio state, persisted as a JSON document),     *)
(* PositionSizer, SimpleBacktester and SignalValidator.                    *)
(*                                                                         *)
(* Units.  Money is counted in integer units (one unit stands for 10 of    *)
(* the source's currency, so the default portfolio of 100000.0 is 10000).  *)
(* confidence is held in hundredths (0.5 is 50), risk_reward_ratio in      *)
(* tenths (1.5 is 15), the percentage limits as whole percents.  A float   *)
(* comparison a/b*100 >= c with b > 0 is evaluated exactly, as             *)
(* a*100 >= c*b.  Timestamps (entry_time, last_updated, timestamp) are     *)
(* left out of the records.                                                *)
(***************************************************************************)
EXTENDS Integers, Sequences, FiniteSets, TLC

VARIABLES
    portfolio_value,   \* RiskEngine.portfolio_value
    peak_value,        \* RiskEngine.peak_value
    daily_pnl,         \* RiskEngine.daily_pnl
    positions,         \* RiskEngine.positions: ticker -> Position
    state_file,        \* content of risk_state.json on disk
    last,              \* the last completed call: its name, arguments, result
    start_value,       \* portfolio_value this RiskEngine instance started with
    realized_sum,      \* sum of the realized P&L of this instance's closes
    ops,               \* number of calls and restarts so far
    audit_log,         \* records of signal_validation_log.jsonl, oldest first
    paper              \* PaperTrader: capital, positions, counters, state file

vars == <<portfolio_value, peak_value, daily_pnl, positions, state_file,
          last, start_value, realized_sum, ops, audit_log, paper>>

(***************************************************************************)
(* Bounds of the model and input domains.                                  *)
(***************************************************************************)
\* mutating calls and restarts in a run of Spec
MaxOps == 4
\* mutating calls and restarts in a run of SpecPersist
MaxPersistOps == 4
\* holding windows with trades in a price history of SpecBacktest
MaxWindows == 2
\* mutating calls in a run of SpecRisk
MaxRiskOps == 5

Tickers == {"AAA", "BBB"}
Sides == {"BUY", "SELL"}
Quantities == {1, 10}
EntryPrices == {1000}
MarkPrices == {900, 1100, 3000}
\* (stop_loss, target) a caller registers with a side
Brackets == [BUY |-> [stop_loss |-> 950, target |-> 1100],
             SELL |-> [stop_loss |-> 1050, target |-> 900]]

(***************************************************************************)
(* RiskEngine.__init__: limits and configured portfolio value.             *)
(***************************************************************************)
max_portfolio_drawdown_pct == 15
max_daily_loss_pct == 3
max_open_positions == 2
min_risk_reward == 15
min_confidence == 50
config_portfolio_value == 10000

NoPositions == [t \in {} |-> 0]

Range(seq) == {seq[i] : i \in 1..Len(seq)}

\* outcomes of writing the state file in _save_state and of reading it in
\* _load_state; both handlers swallow the failure
WriteOutcomes == {"ok", "open_fails", "dump_fails"}
ReadOutcomes == {"ok", "read_fails"}

NoDoc == [portfolio_value |-> 0, peak_value |-> 0, daily_pnl |-> 0,
          positions |-> NoPositions]

StateDocWithoutPeak(pv, peak, daily, pos) ==
    [portfolio_value |-> pv, daily_pnl |-> daily, positions |-> pos]

\* the JSON document _save_state builds from the in-memory state: an object
\* with one member per state field (last_updated is left out)
StateDoc(pv, peak, daily, pos) ==
    [portfolio_value |-> pv, peak_value |-> peak, daily_pnl |-> daily,
     positions |-> pos]

\* _save_state: open(state_file, "w") truncates the file, json.dump writes
\* the document; an exception is caught and only printed.  "open_fails":
\* open raises and the file keeps its content; "dump_fails": the write stops
\* part-way and leaves text that is no JSON document.
SaveState(w, doc, file) ==
    CASE w = "ok"         -> [kind |-> "doc", doc |-> doc]
      [] w = "open_fails" -> file
      [] w = "dump_fails" -> [kind |-> "corrupt", doc |-> NoDoc]

\* state.get(key, default) on the parsed document
DocGet(doc, key, default) == IF key \in DOMAIN doc THEN doc[key] ELSE default

LoadStateTrusting(r, file, defaults) == file.doc

\* _load_state, applied to the freshly constructed defaults: the in-memory
\* state after construction.
LoadState(r, file, defaults) ==
    IF file.kind = "absent" THEN defaults
    ELSE IF r = "ok" /\ file.kind = "doc"
    THEN [portfolio_value |-> DocGet(file.doc, "portfolio_value",
                                     defaults.portfolio_value),
          peak_value |-> DocGet(file.doc, "peak_value", defaults.peak_value),
          daily_pnl |-> DocGet(file.doc, "daily_pnl", 0),
          positions |-> DocGet(file.doc, "positions", NoPositions)]
    ELSE defaults

Defaults ==
    [portfolio_value |-> config_portfolio_value,
     peak_value |-> config_portfolio_value, daily_pnl |-> 0,
     positions |-> NoPositions]

\* dict assignment positions[ticker] = pos and del positions[ticker]
DictSet(d, k, v) == [t \in (DOMAIN d) \cup {k} |-> IF t = k THEN v ELSE d[t]]
DictDelAll(d, k) == [t \in {} |-> d[t]]
DictDel(d, k) == [t \in (DOMAIN d) \ {k} |-> d[t]]

NewPosition(ticker, quantity, price, stop_loss, target, side) ==
    [ticker |-> ticker, quantity |-> quantity, entry_price |-> price,
     current_price |-> price, stop_loss |-> stop_loss, target |-> target,
     side |-> side, unrealized_pnl |-> 0]

PnLIgnoringSide(pos, price) == (price - pos.entry_price) * pos.quantity

\* P&L of a position at a price, by side
PnL(pos, price) ==
    IF pos.side = "BUY" THEN (price - pos.entry_price) * pos.quantity
    ELSE (pos.entry_price - price) * pos.quantity

NewPeakKept(pv, peak) == peak
NewPeak(pv, peak) == IF pv > peak THEN pv ELSE peak

Call(op, ticker, arg, ret) ==
    [op |-> op, ticker |-> ticker, arg |-> arg, ret |-> ret]

\* PaperTrader.__init__ with no paper_state.json: paper_capital 100000
paper_capital == 100000
PaperTraderInit ==
    [capital |-> paper_capital, positions |-> NoPositions, order_counter |-> 0,
     trade_history |-> <<>>, state_file |-> [kind |-> "absent"]]

Init ==
    /\ portfolio_value = config_portfolio_value
    /\ peak_value = config_portfolio_value
    /\ daily_pnl = 0
    /\ positions = NoPositions
    /\ state_file = [kind |-> "absent", doc |-> NoDoc]
    /\ last = Call("init", "", 0, "none")
    /\ start_value = config_portfolio_value
    /\ realized_sum = 0
    /\ ops = 0
    /\ audit_log = <<>>
    /\ paper = PaperTraderInit

register_position(ticker, quantity, price, stop_loss, target, side, w) ==
    /\ positions' = DictSet(positions, ticker,
                       NewPosition(ticker, quantity, price, stop_loss, target, side))
    /\ state_file' = SaveState(w, StateDoc(portfolio_value, peak_value,
                                           daily_pnl, positions'), state_file)
    /\ last' = Call("register_position", ticker, 0,
                    IF ticker \in DOMAIN positions THEN "replaced" ELSE "created")
    /\ ops' = ops + 1
    /\ UNCHANGED <<paper, portfolio_value, peak_value, daily_pnl, start_value, realized_sum,
                   audit_log>>

update_position_to_market(ticker, current_price, w) ==
    /\ ticker \in DOMAIN positions
    /\ positions' = [positions EXCEPT
           ![ticker].current_price = current_price,
           ![ticker].unrealized_pnl = PnL(positions[ticker], current_price)]
    /\ portfolio_value' = portfolio_value + PnL(positions[ticker], current_price)
    /\ state_file' = SaveState(w, StateDoc(portfolio_value', peak_value,
                                   daily_pnl, positions'), state_file)
    /\ last' = Call("update_position", ticker, current_price, "updated")
    /\ ops' = ops + 1
    /\ UNCHANGED <<paper, peak_value, daily_pnl, start_value, realized_sum,
                   audit_log>>

update_position(ticker, current_price, w) ==
    /\ IF ticker \notin DOMAIN positions
       THEN /\ last' = Call("update_position", ticker, 0, "no_position")
            /\ UNCHANGED <<positions, state_file>>
       ELSE /\ positions' = [positions EXCEPT
                   ![ticker].current_price = current_price,
                   ![ticker].unrealized_pnl = PnL(positions[ticker], current_price)]
            /\ state_file' = SaveState(w, StateDoc(portfolio_value, peak_value,
                                           daily_pnl, positions'), state_file)
            /\ last' = Call("update_position", ticker, current_price, "updated")
    /\ ops' = ops + 1
    /\ UNCHANGED <<paper, portfolio_value, peak_value, daily_pnl, start_value, realized_sum,
                   audit_log>>

close_position_unguarded(ticker, exit_price, w) ==
    /\ portfolio_value' = portfolio_value
    /\ daily_pnl' = daily_pnl
    /\ peak_value' = NewPeak(portfolio_value', peak_value)
    /\ positions' = DictDel(positions, ticker)
    /\ state_file' = SaveState(w, StateDoc(portfolio_value', peak_value',
                                   daily_pnl', positions'), state_file)
    /\ realized_sum' = realized_sum
    /\ last' = Call("close_position", ticker, exit_price, "closed")
    /\ ops' = ops + 1
    /\ UNCHANGED <<paper, start_value, audit_log>>

close_position(ticker, exit_price, w) ==
    /\ IF ticker \notin DOMAIN positions
       THEN /\ last' = Call("close_position", ticker, 0, "error")
            /\ UNCHANGED <<portfolio_value, peak_value, daily_pnl, positions,
                           state_file, realized_sum>>
       ELSE LET realized_pnl == PnL(positions[ticker], exit_price) IN
            /\ portfolio_value' = portfolio_value + realized_pnl
            /\ daily_pnl' = daily_pnl + realized_pnl
            /\ peak_value' = NewPeak(portfolio_value', peak_value)
            /\ positions' = DictDel(positions, ticker)
            /\ state_file' = SaveState(w, StateDoc(portfolio_value', peak_value',
                                           daily_pnl', positions'), state_file)
            /\ realized_sum' = realized_sum + realized_pnl
            /\ last' = Call("close_position", ticker, exit_price, "closed")
    /\ ops' = ops + 1
    /\ UNCHANGED <<paper, start_value, audit_log>>

reset_daily(w) ==
    /\ daily_pnl' = 0
    /\ state_file' = SaveState(w, StateDoc(portfolio_value, peak_value,
                                           daily_pnl', positions), state_file)
    /\ last' = Call("reset_daily", "", 0, "none")
    /\ ops' = ops + 1
    /\ UNCHANGED <<paper, portfolio_value, peak_value, positions, start_value, realized_sum,
                   audit_log>>

StopCrossedBelow(pos) == pos.current_price <= pos.stop_loss

\* the test of check_stop_losses on one Position
StopCrossed(pos) ==
    \/ pos.side = "BUY" /\ pos.current_price <= pos.stop_loss
    \/ pos.side = "SELL" /\ pos.current_price >= pos.stop_loss

\* RiskEngine.check_stop_losses: the alerts, as the set of their tickers
check_stop_losses(pos) == {t \in DOMAIN pos : StopCrossed(pos[t])}

check_stop_losses_call ==
    /\ last' = Call("check_stop_losses", "", 0, check_stop_losses(positions))
    /\ UNCHANGED <<paper, portfolio_value, peak_value, daily_pnl, positions, state_file,
                   start_value, realized_sum, ops, audit_log>>

RECURSIVE SumUnrealized(_, _)
\* sum(p["unrealized_pnl"] for p in self.positions.values()) over tickers
SumUnrealized(pos, tickers) ==
    IF tickers = {} THEN 0
    ELSE LET t == CHOOSE u \in tickers : TRUE
         IN pos[t].unrealized_pnl + SumUnrealized(pos, tickers \ {t})

KillSwitchNever(pv, peak) == FALSE

\* drawdown >= self.max_portfolio_drawdown_pct, with drawdown =
\* (peak_value - portfolio_value) / peak_value * 100 if peak_value > 0 else 0
KillSwitchActive(pv, peak) ==
    IF peak > 0 THEN (peak - pv) * 100 >= max_portfolio_drawdown_pct * peak
    ELSE 0 >= max_portfolio_drawdown_pct

\* RiskEngine.get_portfolio_summary; drawdown_pct, a rounded quotient, is
\* left out of the record
get_portfolio_summary(pv, peak, daily, pos) ==
    [portfolio_value |-> pv, peak_value |-> peak, daily_pnl |-> daily,
     open_positions |-> Cardinality(DOMAIN pos),
     total_unrealized_pnl |-> SumUnrealized(pos, DOMAIN pos),
     positions |-> [t \in DOMAIN pos |->
                      [qty |-> pos[t].quantity, entry |-> pos[t].entry_price,
                       current |-> pos[t].current_price,
                       pnl |-> pos[t].unrealized_pnl, side |-> pos[t].side]],
     kill_switch_active |-> KillSwitchActive(pv, peak)]

get_portfolio_summary_call ==
    /\ last' = Call("get_portfolio_summary", "", 0,
                    get_portfolio_summary(portfolio_value, peak_value,
                                          daily_pnl, positions))
    /\ UNCHANGED <<paper, portfolio_value, peak_value, daily_pnl, positions, state_file,
                   start_value, realized_sum, ops, audit_log>>

\* the process stops and a new RiskEngine is constructed over the same file
Restart(r) ==
    /\ LET s == LoadState(r, state_file, Defaults) IN
         /\ portfolio_value' = s.portfolio_value
         /\ peak_value' = s.peak_value
         /\ daily_pnl' = s.daily_pnl
         /\ positions' = s.positions
         /\ start_value' = s.portfolio_value
    /\ realized_sum' = 0
    /\ last' = Call("restart", "", 0,
                    IF state_file.kind = "doc" /\ r = "ok" THEN "loaded" ELSE "defaults")
    /\ ops' = ops + 1
    /\ UNCHANGED <<paper, state_file, audit_log>>

(***************************************************************************)
(* Signals.  A signal is a Python dict; a numeric field is a number, is    *)
(* absent, or holds a value that is no number (None, a string).  decision  *)
(* is a string, "MISSING" standing for an absent key.                      *)
(***************************************************************************)
Num(v) == [k |-> "num", v |-> v]
Missing == [k |-> "missing", v |-> 0]
NonNum == [k |-> "nonnum", v |-> 0]

\* dict.get(key, default) of a numeric field
Get(x, default) == IF x.k = "missing" THEN Num(default) ELSE x

Signal(decision, confidence, risk_reward_ratio, stop_loss_pct, target_pct, ticker) ==
    [decision |-> decision, confidence |-> confidence,
     risk_reward_ratio |-> risk_reward_ratio, stop_loss_pct |-> stop_loss_pct,
     target_pct |-> target_pct, ticker |-> ticker]

Raised(exc) == [status |-> "raised", exc |-> exc]

MsgConfidence == "Confidence below minimum"
MsgRiskReward == "Risk-reward ratio below minimum"
MsgMaxPositions == "Max positions already reached"
MsgDailyLoss == "KILL SWITCH: Daily loss exceeds limit"
MsgDrawdown == "KILL SWITCH: Portfolio drawdown exceeds limit"
WarnAlreadyHeld == "Already hold position"
WarnNoStopLoss == "No stop-loss defined - adding default -5%"

\* Rule 5: daily_loss_pct = daily_pnl / portfolio_value * 100 if
\* portfolio_value > 0 else 0; daily_loss_pct <= -max_daily_loss_pct
DailyLossRule(pv, daily) ==
    IF pv > 0 THEN daily * 100 <= (0 - max_daily_loss_pct) * pv
    ELSE 0 <= 0 - max_daily_loss_pct

DrawdownRuleOverValue(pv, peak) ==
    IF pv > 0 THEN (peak - pv) * 100 >= max_portfolio_drawdown_pct * pv
    ELSE 0 >= max_portfolio_drawdown_pct

\* Rule 6: current_drawdown = (peak_value - portfolio_value) / peak_value * 100
\* if peak_value > 0 else 0; current_drawdown >= max_portfolio_drawdown_pct
DrawdownRule(pv, peak) ==
    IF peak > 0 THEN (peak - pv) * 100 >= max_portfolio_drawdown_pct * peak
    ELSE 0 >= max_portfolio_drawdown_pct

RejectionsFirstOnly(decision, confidence, risk_reward, pv, peak, daily, pos) ==
    IF confidence < min_confidence THEN <<MsgConfidence>>
    ELSE IF risk_reward < min_risk_reward /\ decision # "HOLD" THEN <<MsgRiskReward>>
    ELSE IF Cardinality(DOMAIN pos) >= max_open_positions /\ decision = "BUY"
         THEN <<MsgMaxPositions>>
    ELSE IF DailyLossRule(pv, daily) THEN <<MsgDailyLoss>>
    ELSE IF DrawdownRule(pv, peak) THEN <<MsgDrawdown>>
    ELSE <<>>

\* the rejections list after rules 2 to 6, for numeric confidence and
\* risk_reward_ratio
Rejections(decision, confidence, risk_reward, pv, peak, daily, pos) ==
    LET r2 == IF confidence < min_confidence THEN <<MsgConfidence>> ELSE <<>>
        r3 == IF risk_reward < min_risk_reward /\ decision # "HOLD"
              THEN r2 \o <<MsgRiskReward>> ELSE r2
        r4 == IF Cardinality(DOMAIN pos) >= max_open_positions /\ decision = "BUY"
              THEN r3 \o <<MsgMaxPositions>> ELSE r3
        r5 == IF DailyLossRule(pv, daily) THEN r4 \o <<MsgDailyLoss>> ELSE r4
        r6 == IF DrawdownRule(pv, peak) THEN r5 \o <<MsgDrawdown>> ELSE r5
    IN r6

NoStopLossNever(decision, stop_loss_pct) == FALSE

\* Rule 8: if decision in ("BUY", "SELL") and stop_loss_pct == 0
NoStopLoss(decision, stop_loss_pct) ==
    decision \in {"BUY", "SELL"} /\ stop_loss_pct = Num(0)

HoldChecked(decision) == FALSE

\* Rule 1: if decision == "HOLD"
HoldPassesThrough(decision) == decision = "HOLD"

\* RiskEngine.validate_trade on the engine state (pv, peak, daily, pos)
validate_trade(signal, pv, peak, daily, pos) ==
    LET decision == IF signal.decision = "MISSING" THEN "HOLD" ELSE signal.decision
        confidence == Get(signal.confidence, 0)
        risk_reward == Get(signal.risk_reward_ratio, 0)
        ticker == signal.ticker
    IN
    IF HoldPassesThrough(decision)
    THEN [status |-> "returned", approved |-> TRUE,
          reason |-> <<"HOLD signal - no trade required">>,
          adjusted_signal |-> signal, warnings |-> <<>>]
    ELSE IF confidence.k = "nonnum" \/ risk_reward.k = "nonnum"
    THEN Raised("TypeError")
    ELSE
    LET rejections == Rejections(decision, confidence.v, risk_reward.v,
                                 pv, peak, daily, pos)
        w7 == IF ticker \in DOMAIN pos /\ decision = "BUY"
              THEN <<WarnAlreadyHeld>> ELSE <<>>
        stop_loss_pct == Get(signal.stop_loss_pct, 0)
        no_stop == NoStopLoss(decision, stop_loss_pct)
        warnings == IF no_stop THEN w7 \o <<WarnNoStopLoss>> ELSE w7
        adjusted == IF no_stop THEN [signal EXCEPT !.stop_loss_pct = Num(-5)]
                    ELSE signal
    IN IF rejections # <<>>
       THEN [status |-> "returned", approved |-> FALSE, reason |-> rejections,
             adjusted_signal |-> adjusted, warnings |-> warnings]
       ELSE [status |-> "returned", approved |-> TRUE,
             reason |-> <<"All risk checks passed">>,
             adjusted_signal |-> adjusted, warnings |-> warnings]

validate_trade_resetting(signal) ==
    /\ last' = Call("validate_trade", signal.ticker, signal,
                    validate_trade(signal, portfolio_value, peak_value,
                                   daily_pnl, positions))
    /\ daily_pnl' = daily_pnl - 1
    /\ UNCHANGED <<paper, portfolio_value, peak_value, positions, state_file,
                   start_value, realized_sum, ops, audit_log>>

\* a caller asks the engine about a signal; the engine state is only read
validate_trade_call(signal) ==
    /\ last' = Call("validate_trade", signal.ticker, signal,
                    validate_trade(signal, portfolio_value, peak_value,
                                   daily_pnl, positions))
    /\ UNCHANGED <<paper, portfolio_value, peak_value, daily_pnl, positions, state_file,
                   start_value, realized_sum, ops, audit_log>>

\* signals put to validate_trade
RiskSignals ==
    {Signal(d, Num(c), Num(rr), Num(-5), Num(10), "AAA") :
        d \in {"BUY", "SELL", "HOLD"}, c \in {30, 80}, rr \in {10, 20}}
    \cup {Signal(d, Num(80), Num(20), Num(0), Num(10), "AAA") :
        d \in {"BUY", "SELL", "HOLD"}}

(***************************************************************************)
(* PositionSizer.  Prices are multiples of 100 units and stop_loss_pct and *)
(* target_pct whole percents, so the money amounts are integers.           *)
(***************************************************************************)
max_risk_per_trade_pct == 2
max_position_pct == 20
\* kelly_fraction 0.5, in hundredths
kelly_fraction == 50

Abs(x) == IF x < 0 THEN 0 - x ELSE x
Min(a, b) == IF a < b THEN a ELSE b
Max(a, b) == IF a > b THEN a ELSE b

MethodInvalid == "REJECTED: Invalid price or portfolio value"
MethodMin == "min(risk_limit, half_kelly, max_position)"

_empty_result(method) ==
    [quantity |-> 0, investment_amount |-> 0, risk_amount |-> 0,
     stop_loss_price |-> 0, target_price |-> 0, method |-> method,
     details |-> [k \in {} |-> 0]]

win_probability_unclamped(confidence) == confidence

\* win_prob = min(0.95, max(0.1, confidence)), in hundredths
win_probability(confidence) == Min(95, Max(10, confidence))

\* PositionSizer.calculate_position; portfolio_value is the value passed by
\* the caller, stop_loss_pct, target_pct and confidence are signal fields
calculate_position(current_price, stop_loss_pct, target_pct, confidence, portfolio_value_arg) ==
    LET pv == IF portfolio_value_arg = 0 THEN config_portfolio_value
              ELSE portfolio_value_arg
    IN
    IF current_price <= 0 \/ pv <= 0 THEN _empty_result(MethodInvalid)
    ELSE IF stop_loss_pct.k = "nonnum" \/ target_pct.k = "nonnum"
            \/ confidence.k = "nonnum"
    THEN Raised("TypeError")
    ELSE
    LET sl == IF stop_loss_pct.v # 0 THEN Abs(stop_loss_pct.v) ELSE 5
        tp == IF target_pct.v # 0 THEN Abs(target_pct.v) ELSE 5
        \* risk_amount / price_risk_per_share
        qty_by_risk == (pv * max_risk_per_trade_pct) \div (current_price * sl)
        win_prob == win_probability(confidence.v)
        \* kelly_pct = (win_prob * b - loss_prob) / b with b = tp / sl, as the
        \* fraction kelly_num / (100 * tp), times kelly_fraction / 100
        kelly_num == Max(0, win_prob * tp - (100 - win_prob) * sl)
        qty_by_kelly == (pv * kelly_num * kelly_fraction)
                            \div (100 * tp * 100 * current_price)
        qty_by_max == (pv * max_position_pct) \div (100 * current_price)
        final_qty == Max(1, Min(qty_by_risk, Min(qty_by_kelly, qty_by_max)))
    IN [quantity |-> final_qty,
        investment_amount |-> final_qty * current_price,
        risk_amount |-> (final_qty * current_price * sl) \div 100,
        stop_loss_price |-> (current_price * (100 - sl)) \div 100,
        target_price |-> (current_price * (100 + tp)) \div 100,
        method |-> MethodMin,
        details |-> [qty_by_risk_limit |-> qty_by_risk,
                     qty_by_kelly |-> qty_by_kelly,
                     qty_by_max_position |-> qty_by_max]]

\* one call of calculate_position; the sizer keeps no state
calculate_position_call(current_price, stop_loss_pct, target_pct, confidence, portfolio_value_arg) ==
    /\ last' = Call("calculate_position", "",
                    [current_price |-> current_price,
                     stop_loss_pct |-> stop_loss_pct, target_pct |-> target_pct,
                     confidence |-> confidence,
                     portfolio_value |-> portfolio_value_arg],
                    calculate_position(current_price, stop_loss_pct, target_pct,
                                       confidence, portfolio_value_arg))
    /\ UNCHANGED <<paper, portfolio_value, peak_value, daily_pnl, positions, state_file,
                   start_value, realized_sum, ops, audit_log>>

\* arguments put to calculate_position: on each of them the quotients the
\* source computes in floating point and the exact quotients computed here
\* have the same integer part
SizerPrices == {0, 100, 6000}
SizerPortfolios == {-100, 0, 500, 10000}
SizerStops == {Num(-10), Num(-5), Num(0), Num(5)}
SizerTargets == {Num(0), Num(5), Num(10)}
SizerConfidences == {Num(5), Num(30), Num(80)}
\* confidence above the upper clamp of the win probability
SizerClamped == [current_price |-> 100, stop_loss_pct |-> Num(-5),
                 target_pct |-> Num(10), confidence |-> Num(100),
                 portfolio_value |-> 10000]
SizerArguments ==
    [current_price : SizerPrices, stop_loss_pct : SizerStops,
     target_pct : SizerTargets, confidence : SizerConfidences,
     portfolio_value : SizerPortfolios] \cup {SizerClamped}

\* the sizer keeps no state: a run is one call
CalculatePosition ==
    /\ last.op = "init"
    /\ \E a \in SizerArguments :
          calculate_position_call(a.current_price, a.stop_loss_pct,
                                  a.target_pct, a.confidence, a.portfolio_value)

\* PositionSizer alone: calls of calculate_position over the argument sets
NextSizer == CalculatePosition

SpecSizer == Init /\ [][NextSizer]_vars

(***************************************************************************)
(* SimpleBacktester.backtest_signal.  market is what the price-history     *)
(* provider yields for the call: kind "no_yfinance" (the import fails),    *)
(* "fetch_error" (yf.download raises), "simulation_error" (an exception    *)
(* between the fetch and the statistics) or "history": bars observations   *)
(* were returned, and windows holds the statistics _compute_stats yields   *)
(* for the holding windows that produced trades, in configured order       *)
(* (win_rate in thousandths, sharpe_ratio and max_drawdown_pct in          *)
(* hundredths).                                                            *)
(***************************************************************************)
\* self.test_windows, as the keys of all_results
test_windows == <<"5d", "10d", "20d", "60d">>

FailOpen(reason) ==
    [approved |-> TRUE, reason |-> <<reason>>, win_rate |-> 0,
     sharpe_ratio |-> 0, max_drawdown_pct |-> 0, trade_count |-> 0]

IsHoldNever(decision) == FALSE

\* if decision == "HOLD"
IsHold(decision) == decision = "HOLD"

InsufficientDataNever(market) == FALSE

\* if data.empty or len(data) < 30
InsufficientData(market) == market.bars = 0 \/ market.bars < 30

\* yf.download is called
Fetches(decision, market) == ~IsHold(decision) /\ market.kind # "no_yfinance"

LastWindow(windows, i, best) == Len(windows)

\* max(all_results.keys(), key=sharpe_ratio) over windows[i..]: the window
\* kept is replaced only by one with a greater sharpe_ratio
RECURSIVE BestWindow(_, _, _)
BestWindow(windows, i, best) ==
    IF i > Len(windows) THEN best
    ELSE IF windows[i].sharpe_ratio > windows[best].sharpe_ratio
    THEN BestWindow(windows, i + 1, i)
    ELSE BestWindow(windows, i + 1, best)

backtest_signal(ticker, decision, stop_loss_pct, target_pct, market) ==
    IF IsHold(decision) THEN FailOpen("HOLD - no backtest needed")
    ELSE IF market.kind = "no_yfinance"
    THEN FailOpen("yfinance not available - skipping backtest")
    ELSE IF market.kind = "fetch_error"
    THEN FailOpen("Backtest error (proceeding anyway)")
    ELSE IF InsufficientData(market)
    THEN FailOpen("Insufficient historical data")
    ELSE IF market.kind = "simulation_error"
            \/ stop_loss_pct.k = "nonnum" \/ target_pct.k = "nonnum"
    THEN FailOpen("Backtest error (proceeding anyway)")
    ELSE IF market.windows = <<>>
    THEN FailOpen("No valid backtest trades generated")
    ELSE
    LET best_window == BestWindow(market.windows, 2, 1)
        best == market.windows[best_window]
        approved == /\ best.win_rate >= 400
                    /\ best.sharpe_ratio >= 50
                    /\ best.max_drawdown_pct <= 2500
        p1 == IF best.win_rate < 400 THEN <<"Low win rate">> ELSE <<>>
        p2 == IF best.sharpe_ratio < 50 THEN p1 \o <<"Low Sharpe">> ELSE p1
        p3 == IF best.max_drawdown_pct > 2500 THEN p2 \o <<"High drawdown">> ELSE p2
    IN [approved |-> approved,
        reason |-> IF p3 # <<>> THEN p3 ELSE <<"Backtest passed">>,
        best_hold_period |-> test_windows[best_window],
        win_rate |-> best.win_rate, sharpe_ratio |-> best.sharpe_ratio,
        max_drawdown_pct |-> best.max_drawdown_pct,
        trade_count |-> best.trade_count]

\* one call of backtest_signal; the backtester keeps no state
backtest_signal_call(ticker, decision, stop_loss_pct, target_pct, market) ==
    /\ last' = Call("backtest_signal", ticker,
                    [decision |-> decision, stop_loss_pct |-> stop_loss_pct,
                     target_pct |-> target_pct, market |-> market],
                    [result |-> backtest_signal(ticker, decision, stop_loss_pct,
                                                target_pct, market),
                     fetched |-> Fetches(decision, market)])
    /\ UNCHANGED <<paper, portfolio_value, peak_value, daily_pnl, positions, state_file,
                   start_value, realized_sum, ops, audit_log>>

\* statistics of a holding window
Stats(win_rate, sharpe_ratio, max_drawdown_pct) ==
    [win_rate |-> win_rate, sharpe_ratio |-> sharpe_ratio,
     max_drawdown_pct |-> max_drawdown_pct, trade_count |-> 50]
GoodStats == Stats(600, 120, 800)
BadStats == Stats(300, 20, 3000)
\* statistics at the thresholds, and failing one threshold each
WindowStats ==
    {GoodStats, BadStats, Stats(400, 50, 2500), Stats(399, 120, 800),
     Stats(600, 49, 800), Stats(600, 120, 2501)}

\* price histories put to backtest_signal: up to MaxWindows windows with trades
Histories ==
    [kind : {"history"}, bars : {0, 29, 30}, windows : {<<>>}]
    \cup [kind : {"history", "simulation_error"}, bars : {250},
          windows : UNION {[1..n -> WindowStats] : n \in 0..MaxWindows}]
    \cup [kind : {"history"}, bars : {0, 29}, windows : {<<BadStats>>}]
    \cup [kind : {"no_yfinance", "fetch_error"}, bars : {0}, windows : {<<>>}]

\* the backtester keeps no state: a run is one call
BacktestSignal ==
    /\ last.op = "init"
    /\ \E t \in Tickers, d \in {"BUY", "SELL", "HOLD"},
          sl \in {Num(-5), Num(0), NonNum}, tp \in {Num(10)},
          market \in Histories :
          backtest_signal_call(t, d, sl, tp, market)

\* SimpleBacktester alone: calls of backtest_signal
NextBacktest == BacktestSignal

SpecBacktest == Init /\ [][NextBacktest]_vars

(***************************************************************************)
(* SignalValidator.validate_and_size.  The value is the call's outcome:    *)
(* "returned" with the ValidationResult, or "raised" with the exception;   *)
(* consulted lists the collaborators the call invoked, in order.           *)
(***************************************************************************)
None == [none |-> TRUE]

\* signal is the caller's signal dict as the call leaves it
Returned(result, consulted, signal) ==
    [outcome |-> "returned", result |-> result, consulted |-> consulted,
     signal |-> signal]
RaisedIn(exc, consulted, signal) ==
    [outcome |-> "raised", exc |-> exc, consulted |-> consulted,
     signal |-> signal]

ResultWithWarnings(ticker, decision, current_price, steps, approved, order, reason) ==
    [keys |-> {"ticker", "decision", "current_price", "timestamp", "steps",
               "approved", "order", "reason", "warnings"},
     ticker |-> ticker, decision |-> decision, current_price |-> current_price,
     steps |-> steps, approved |-> approved, order |-> order, reason |-> reason,
     warnings |-> <<>>]

\* the result dict: keys holds the keys the dict has
Result(ticker, decision, current_price, steps, approved, order, reason) ==
    [keys |-> {"ticker", "decision", "current_price", "timestamp", "steps",
               "approved", "order", "reason"},
     ticker |-> ticker, decision |-> decision, current_price |-> current_price,
     steps |-> steps, approved |-> approved, order |-> order, reason |-> reason,
     warnings |-> <<>>]

OrderAtInvestment(ticker, signal, current_price, position) ==
    [ticker |-> ticker, side |-> signal.decision,
     quantity |-> position.quantity, order_type |-> "LIMIT",
     price |-> position.investment_amount,
     stop_loss |-> position.stop_loss_price, target |-> position.target_price,
     investment_amount |-> position.investment_amount,
     risk_amount |-> position.risk_amount,
     confidence |-> Get(signal.confidence, 50)]

\* Step 5: the order dict, without the rationale text
Order(ticker, signal, current_price, position) ==
    [ticker |-> ticker, side |-> signal.decision,
     quantity |-> position.quantity, order_type |-> "LIMIT",
     price |-> current_price,
     stop_loss |-> position.stop_loss_price, target |-> position.target_price,
     investment_amount |-> position.investment_amount,
     risk_amount |-> position.risk_amount,
     confidence |-> Get(signal.confidence, 50)]

BacktestGateIgnored(skip_backtest, backtest_result) == FALSE

\* if not backtest_result.get("approved", True), inside if not skip_backtest
BacktestGateRejects(skip_backtest, backtest_result) ==
    ~skip_backtest /\ ~backtest_result.approved

HoldContinues(decision) == FALSE

\* Step 1: if signal.get("decision") == "HOLD"
HoldTerminates(decision) == decision = "HOLD"

validate_and_size(signal0, current_price, ticker, skip_backtest, market, pv, peak, daily, pos) ==
    LET signal == [signal0 EXCEPT !.ticker = ticker]
        decision == IF signal.decision = "MISSING" THEN "HOLD" ELSE signal.decision
        Res(steps, approved, order, reason) ==
            Result(ticker, decision, current_price, steps, approved, order, reason)
    IN
    \* Step 1
    IF HoldTerminates(signal.decision)
    THEN Returned(Res(<<>>, TRUE, None, <<"HOLD signal - no order generated">>), <<>>, signal)
    \* Step 2
    ELSE IF ~skip_backtest /\ signal.decision = "MISSING"
    THEN RaisedIn("KeyError", <<>>, signal)
    ELSE
    LET backtest_result ==
            IF skip_backtest THEN [skipped |-> TRUE]
            ELSE backtest_signal(ticker, signal.decision,
                                 Get(signal.stop_loss_pct, -5),
                                 Get(signal.target_pct, 5), market)
        c2 == IF skip_backtest THEN <<>> ELSE <<"backtester">>
        steps2 == [backtest |-> backtest_result]
    IN
    IF BacktestGateRejects(skip_backtest, backtest_result)
    THEN Returned(Res(steps2, FALSE, None,
                      <<"BACKTEST REJECTED">> \o backtest_result.reason), c2, signal)
    ELSE
    \* Step 3
    LET risk_result == validate_trade(signal, pv, peak, daily, pos)
        c3 == c2 \o <<"risk_engine">>
    IN
    IF risk_result.status = "raised" THEN RaisedIn(risk_result.exc, c3, signal)
    ELSE
    LET steps3 == [backtest |-> backtest_result, risk |-> risk_result] IN
    IF ~risk_result.approved
    THEN Returned(Res(steps3, FALSE, None,
                      <<"RISK REJECTED">> \o risk_result.reason), c3,
                  risk_result.adjusted_signal)
    ELSE
    \* Step 4; validate_trade has set the default stop-loss in the dict
    LET adjusted == risk_result.adjusted_signal
        position == calculate_position(current_price,
                        Get(adjusted.stop_loss_pct, -5),
                        Get(adjusted.target_pct, 5),
                        Get(adjusted.confidence, 50), pv)
        c4 == c3 \o <<"position_sizer">>
    IN
    IF "status" \in DOMAIN position THEN RaisedIn(position.exc, c4, adjusted)
    ELSE
    LET steps4 == [backtest |-> backtest_result, risk |-> risk_result,
                   position_sizing |-> position] IN
    IF position.quantity <= 0
    THEN Returned(Res(steps4, FALSE, None,
                      <<"SIZING REJECTED", position.method>>), c4, adjusted)
    \* Step 5
    ELSE IF adjusted.decision = "MISSING" THEN RaisedIn("KeyError", c4, adjusted)
    ELSE
    LET order == Order(ticker, adjusted, current_price, position)
        result == Res(steps4, TRUE, order, <<"ALL CHECKS PASSED">>)
    IN Returned([result EXCEPT !.keys = @ \cup {"warnings"},
                               !.warnings = risk_result.warnings], c4, adjusted)

\* the stop_loss_pct and target_pct that validate_and_size hands to each gate
\* for a BUY or SELL signal: signal.get(...) before validate_trade for the
\* backtest, validate_trade's own read, signal.get(...) after validate_trade
\* for the sizing
GateArguments(signal0, ticker, pv, peak, daily, pos) ==
    LET signal == [signal0 EXCEPT !.ticker = ticker]
        adjusted == validate_trade(signal, pv, peak, daily, pos).adjusted_signal
    IN [backtest |-> [stop_loss_pct |-> Get(signal.stop_loss_pct, -5),
                      target_pct |-> Get(signal.target_pct, 5)],
        risk |-> [stop_loss_pct |-> Get(signal.stop_loss_pct, 0)],
        position_sizing |-> [stop_loss_pct |-> Get(adjusted.stop_loss_pct, -5),
                             target_pct |-> Get(adjusted.target_pct, 5)]]

\* outcomes of appending to the log file in _log; a failure is swallowed
LogOutcomes == {"ok", "append_fails"}

\* SignalValidator._log
_log(log, result, l) == IF l = "ok" THEN Append(log, result) ELSE log

\* one call of validate_and_size against the engine state
validate_and_size_call(signal, current_price, ticker, skip_backtest, market, l) ==
    LET ret == validate_and_size(signal, current_price, ticker, skip_backtest,
                                 market, portfolio_value, peak_value, daily_pnl,
                                 positions)
    IN /\ last' = Call("validate_and_size", ticker,
                       [signal |-> signal, current_price |-> current_price,
                        skip_backtest |-> skip_backtest, market |-> market,
                        again |-> last.op = "validate_and_size"
                                  /\ signal = last.ret.signal
                                  /\ current_price = last.arg.current_price
                                  /\ ticker = last.ticker
                                  /\ skip_backtest = last.arg.skip_backtest
                                  /\ market = last.arg.market], ret)
       /\ audit_log' = IF ret.outcome = "returned"
                       THEN _log(audit_log, ret.result, l) ELSE audit_log
       /\ ops' = ops + 1
       /\ UNCHANGED <<paper, portfolio_value, peak_value, daily_pnl, positions,
                      state_file, start_value, realized_sum>>

(***************************************************************************)
(* The callers' steps: each draws the arguments of one call, and the       *)
(* outcome of the file write the call ends with.                           *)
(***************************************************************************)
Register(bound, outcomes) ==
    /\ ops < bound
    /\ \E t \in Tickers, q \in Quantities, p \in EntryPrices, s \in Sides,
          w \in outcomes :
          register_position(t, q, p, Brackets[s].stop_loss, Brackets[s].target, s, w)

Update(bound, outcomes) ==
    /\ ops < bound
    /\ \E t \in Tickers, p \in MarkPrices, w \in outcomes : update_position(t, p, w)

Close(bound, outcomes) ==
    /\ ops < bound
    /\ \E t \in Tickers, p \in MarkPrices, w \in outcomes : close_position(t, p, w)

ResetDaily(bound, outcomes) ==
    /\ ops < bound
    /\ \E w \in outcomes : reset_daily(w)

RestartProcess(bound, outcomes) ==
    /\ ops < bound
    /\ \E r \in outcomes : Restart(r)

\* RiskEngine over its state file: every call, write and read failures, restarts
Next ==
    \/ Register(MaxOps, WriteOutcomes)
    \/ Update(MaxOps, WriteOutcomes)
    \/ Close(MaxOps, WriteOutcomes)
    \/ ResetDaily(MaxOps, WriteOutcomes)
    \/ RestartProcess(MaxOps, ReadOutcomes)

Spec == Init /\ [][Next]_vars

\* a caller marks an open Position at its stop price
UpdateToStop(bound) ==
    /\ ops < bound
    /\ \E t \in DOMAIN positions :
          update_position(t, positions[t].stop_loss, "ok")

CheckStopLosses == check_stop_losses_call

PortfolioSummary == get_portfolio_summary_call

\* RiskEngine over its state file with every write and read succeeding
NextPersist ==
    \/ Register(MaxPersistOps, {"ok"})
    \/ Update(MaxPersistOps, {"ok"})
    \/ Close(MaxPersistOps, {"ok"})
    \/ ResetDaily(MaxPersistOps, {"ok"})
    \/ RestartProcess(MaxPersistOps, {"ok"})
    \/ UpdateToStop(MaxPersistOps)
    \/ CheckStopLosses
    \/ PortfolioSummary

SpecPersist == Init /\ [][NextPersist]_vars

ValidateTrade == \E signal \in RiskSignals : validate_trade_call(signal)

\* RiskEngine with validate_trade between the mutating calls, every write
\* succeeding
NextRisk ==
    \/ Register(MaxRiskOps, {"ok"})
    \/ Update(MaxRiskOps, {"ok"})
    \/ Close(MaxRiskOps, {"ok"})
    \/ ResetDaily(MaxRiskOps, {"ok"})
    \/ ValidateTrade

SpecRisk == Init /\ [][NextRisk]_vars

(***************************************************************************)
(* Properties of validate_trade, checked under SpecRisk.  The state a      *)
(* validate_trade result is compared with is the state of the call:        *)
(* validate_trade changes none of the engine's variables, and every other  *)
(* call overwrites last.                                                   *)
(***************************************************************************)
TradeSignalValidated ==
    last.op = "validate_trade" /\ last.arg.decision \in {"BUY", "SELL"}

\* a / b * 100 >= c and a / b * 100 <= c over the rationals, b # 0
PctAtLeast(a, b, c) == IF b > 0 THEN a * 100 >= c * b ELSE a * 100 <= c * b
PctAtMost(a, b, c) == IF b > 0 THEN a * 100 <= c * b ELSE a * 100 >= c * b

\* C3: in every state where (peak_value - portfolio_value) / peak_value * 100
\* >= max_portfolio_drawdown_pct, validate_trade rejects every BUY and every
\* SELL signal with a reason that holds the KILL SWITCH drawdown message,
\* whatever its confidence and risk_reward_ratio.
C3_DrawdownKillSwitch ==
    (/\ TradeSignalValidated
     /\ peak_value # 0
     /\ PctAtLeast(peak_value - portfolio_value, peak_value,
                   max_portfolio_drawdown_pct))
    => /\ last.ret.status = "returned"
       /\ last.ret.approved = FALSE
       /\ MsgDrawdown \in Range(last.ret.reason)

\* a signal that passes every other rule is rejected for the drawdown alone
C3_Witness_DrawdownOnly ==
    /\ TradeSignalValidated
    /\ last.arg.confidence = Num(80) /\ last.arg.risk_reward_ratio = Num(20)
    /\ (peak_value - portfolio_value) * 100 >= max_portfolio_drawdown_pct * peak_value
    /\ last.ret.reason = <<MsgDrawdown>>

\* the messages of the rules that hold, in the order of the rules
FailingRules(rules) ==
    LET failing == SelectSeq(rules, LAMBDA r : r[1])
    IN [i \in 1..Len(failing) |-> failing[i][2]]

\* rules (1) to (3) and (5) of the claim for the validated signal
Rule1 == <<last.arg.confidence.v < min_confidence, MsgConfidence>>
Rule2 == <<last.arg.risk_reward_ratio.v < min_risk_reward, MsgRiskReward>>
Rule3 == <<last.arg.decision = "BUY"
             /\ Cardinality(DOMAIN positions) >= max_open_positions,
           MsgMaxPositions>>
Rule5 == <<peak_value > 0
             /\ PctAtLeast(peak_value - portfolio_value, peak_value,
                           max_portfolio_drawdown_pct),
           MsgDrawdown>>

ResultIs(failing) ==
    /\ last.ret.status = "returned"
    /\ last.ret.approved = (failing = <<>>)
    /\ last.ret.approved = FALSE => last.ret.reason = failing

\* C4 as stated: rule (4) is daily_pnl / portfolio_value * 100 <=
\* -max_daily_loss_pct, whatever the sign of portfolio_value (the quotient
\* is undefined at 0, where the statement is not evaluated).
C4_AllRulesAsStated ==
    (TradeSignalValidated /\ portfolio_value # 0) =>
        ResultIs(FailingRules(<<Rule1, Rule2, Rule3,
            <<PctAtMost(daily_pnl, portfolio_value, 0 - max_daily_loss_pct),
              MsgDailyLoss>>,
            Rule5>>))

\* C4, amended: for a BUY or SELL signal approved is false iff at least one
\* of the five rules holds, rule (4) being portfolio_value > 0 and
\* daily_pnl / portfolio_value * 100 <= -max_daily_loss_pct, and the reason
\* is the messages of exactly the failing rules, in the order of the rules.
C4_AllRulesNoShortCircuit ==
    TradeSignalValidated =>
        ResultIs(FailingRules(<<Rule1, Rule2, Rule3,
            <<portfolio_value > 0
                /\ PctAtMost(daily_pnl, portfolio_value, 0 - max_daily_loss_pct),
              MsgDailyLoss>>,
            Rule5>>))

\* all five rules fail for one signal
C4_Witness_AllFive ==
    /\ TradeSignalValidated
    /\ last.ret.reason = <<MsgConfidence, MsgRiskReward, MsgMaxPositions,
                           MsgDailyLoss, MsgDrawdown>>

\* C22: the two advisory checks of validate_trade never reject.  A BUY for
\* a ticker with an open Position only adds the 'Already hold position'
\* warning; a BUY or SELL with a zero stop_loss_pct only adds a warning and
\* gets stop_loss_pct = -5.0 in adjusted_signal; approved is decided by the
\* five rejecting rules alone.
C22_AdvisoriesNeverReject ==
    TradeSignalValidated =>
      LET held == last.arg.decision = "BUY" /\ last.arg.ticker \in DOMAIN positions
          zero_stop == last.arg.stop_loss_pct = Num(0)
          failing == FailingRules(<<Rule1, Rule2, Rule3,
              <<portfolio_value > 0
                  /\ PctAtMost(daily_pnl, portfolio_value, 0 - max_daily_loss_pct),
                MsgDailyLoss>>,
              Rule5>>)
      IN
      /\ last.ret.status = "returned"
      /\ last.ret.approved = (failing = <<>>)
      /\ last.ret.warnings =
            (IF held THEN <<WarnAlreadyHeld>> ELSE <<>>)
            \o (IF zero_stop THEN <<WarnNoStopLoss>> ELSE <<>>)
      /\ last.ret.adjusted_signal =
            IF zero_stop THEN [last.arg EXCEPT !.stop_loss_pct = Num(-5)]
            ELSE last.arg

\* a BUY without stop-loss for a ticker already held is approved with both
\* warnings
C22_Witness_BothWarnings ==
    /\ TradeSignalValidated
    /\ last.ret.approved
    /\ last.ret.warnings = <<WarnAlreadyHeld, WarnNoStopLoss>>

\* C20: validate_trade approves every HOLD signal at once, with an empty
\* warnings list and the signal left as it was, in every portfolio state:
\* also with a kill switch active, with confidence or risk_reward_ratio
\* below its minimum and with a zero stop_loss_pct.
C20_HoldApproved ==
    (last.op = "validate_trade" /\ last.arg.decision = "HOLD") =>
        /\ last.ret.status = "returned"
        /\ last.ret.approved
        /\ last.ret.reason = <<"HOLD signal - no trade required">>
        /\ last.ret.warnings = <<>>
        /\ last.ret.adjusted_signal = last.arg

\* a HOLD without stop-loss approved while the drawdown kill switch is active
C20_Witness_HoldUnderKillSwitch ==
    /\ last.op = "validate_trade" /\ last.arg.decision = "HOLD"
    /\ last.arg.stop_loss_pct = Num(0)
    /\ (peak_value - portfolio_value) * 100
          >= max_portfolio_drawdown_pct * peak_value
    /\ last.ret.approved

\* C34: the daily-loss kill switch latches.  validate_trade rejects a
\* BUY/SELL signal for the daily loss exactly when
\* daily_pnl / portfolio_value <= -max_daily_loss_pct holds in the engine
\* state, so the rejection persists until reset_daily iff no
\* register_position, update_position or close_position call takes the
\* engine out of that condition, and validate_trade asked after such a call
\* still names the kill switch among its rejections.
C34_DailyKillSwitchLatches ==
    [][/\ (/\ DailyLossRule(portfolio_value, daily_pnl)
           /\ last'.op \in {"register_position", "update_position",
                            "close_position"}) =>
              DailyLossRule(portfolio_value', daily_pnl')
       /\ (/\ DailyLossRule(portfolio_value, daily_pnl)
           /\ last.op = "validate_trade" /\ last'.op = "validate_trade"
           /\ last'.arg.decision \in {"BUY", "SELL"}) =>
              /\ ~last'.ret.approved
              /\ MsgDailyLoss \in Range(last'.ret.reason)
      ]_vars

\* C38: update_position(t, p) on an open Position sets its current_price
\* to p and its unrealized_pnl to (p - entry_price) * quantity for side BUY
\* and (entry_price - p) * quantity for side SELL, and leaves
\* portfolio_value, peak_value, daily_pnl, the Position's other fields and
\* every other Position unchanged, so that validate_trade answers every
\* signal as it did before the mark: unrealized losses enter neither the
\* drawdown nor the daily-loss check.  close_position at the price last
\* marked realizes exactly the Position's unrealized_pnl.
C38_MarkToMarket ==
    [][/\ (last'.op = "update_position" /\ last'.ret = "updated") =>
            LET t == last'.ticker
                p == last'.arg
                old == positions[t]
            IN
            /\ DOMAIN positions' = DOMAIN positions
            /\ positions'[t] =
                  [old EXCEPT
                     !.current_price = p,
                     !.unrealized_pnl =
                        IF old.side = "BUY"
                        THEN (p - old.entry_price) * old.quantity
                        ELSE (old.entry_price - p) * old.quantity]
            /\ \A u \in DOMAIN positions \ {t} : positions'[u] = positions[u]
            /\ UNCHANGED <<portfolio_value, peak_value, daily_pnl>>
            /\ \A signal \in RiskSignals :
                  validate_trade(signal, portfolio_value', peak_value',
                                 daily_pnl', positions')
                    = validate_trade(signal, portfolio_value, peak_value,
                                     daily_pnl, positions)
       /\ (/\ last'.op = "close_position" /\ last'.ret = "closed"
           /\ last'.arg = positions[last'.ticker].current_price) =>
            LET unrealized_pnl == positions[last'.ticker].unrealized_pnl IN
            /\ daily_pnl' = daily_pnl + unrealized_pnl
            /\ portfolio_value' = portfolio_value + unrealized_pnl
      ]_vars

\* a short Position marked at a loss of 1000 with the portfolio untouched
C38_Witness_ShortMarkedAtLoss ==
    /\ last.op = "update_position" /\ last.ret = "updated"
    /\ positions[last.ticker].side = "SELL"
    /\ positions[last.ticker].current_price = 1100
    /\ positions[last.ticker].unrealized_pnl = -1000
    /\ portfolio_value = config_portfolio_value
    /\ peak_value = config_portfolio_value
    /\ daily_pnl = 0

(***************************************************************************)
(* Properties of the RiskEngine state, checked under Spec.                 *)
(***************************************************************************)
\* the state the engine holds in memory, as a document
Memory == StateDoc(portfolio_value, peak_value, daily_pnl, positions)

\* C1: in every reachable state of RiskEngine (after construction, after any
\* call, after a restart over any state file the engine left behind)
\* peak_value >= portfolio_value.
C1_PeakAtLeastValue == peak_value >= portfolio_value

\* a close has made a new high, and a restart has reloaded a state below its peak
C1_Witness_NewHigh ==
    /\ last.op = "close_position" /\ last.ret = "closed"
    /\ peak_value > config_portfolio_value
    /\ portfolio_value = peak_value

\* C2: every new value of peak_value is >= the previous one, over every call
\* and over a restart that reloads the persisted document (also one left
\* behind by a failed, swallowed write).
C2_PeakNeverDecreases ==
    [][(last'.op = "restart" => last'.ret = "loaded") => peak_value' >= peak_value]_vars

\* C8: the positions map holds each Position under its own ticker;
\* register_position sets the entry of its ticker only (replacing an existing
\* one, so the count does not grow), update_position changes the entry of its
\* ticker only, close_position removes the entry of its ticker only.
C8_OnePositionPerTicker ==
    [][LET t == last'.ticker
           Others == (DOMAIN positions) \ {t}
           OthersKept == \A u \in Others :
                            u \in DOMAIN positions' /\ positions'[u] = positions[u]
       IN
       /\ \A u \in DOMAIN positions' : positions'[u].ticker = u
       /\ last'.op = "register_position" =>
            /\ DOMAIN positions' = (DOMAIN positions) \cup {t}
            /\ OthersKept
            /\ (last'.ret = "replaced") =>
                   Cardinality(DOMAIN positions') = Cardinality(DOMAIN positions)
       /\ last'.op = "update_position" =>
            /\ DOMAIN positions' = DOMAIN positions
            /\ OthersKept
       /\ (last'.op = "close_position" /\ last'.ret = "closed") =>
            /\ DOMAIN positions' = (DOMAIN positions) \ {t}
            /\ OthersKept
      ]_vars

\* a register_position replaced the Position of its ticker while another
\* ticker's Position was open
C8_Witness_Replaced ==
    /\ last.op = "register_position" /\ last.ret = "replaced"
    /\ Cardinality(DOMAIN positions) = 2

\* C9: close_position(t, exit_price) on an open Position removes t, adds the
\* realized P&L ((exit - entry) * quantity for BUY, (entry - exit) * quantity
\* for SELL) to portfolio_value and to daily_pnl, raises peak_value only to a
\* new high; portfolio_value equals the value the engine started with plus
\* the sum of the realized P&L of its closes.
C9_CloseRealizesPnL ==
    [][/\ (last'.op = "close_position" /\ last'.ret = "closed") =>
            LET t == last'.ticker
                pos == positions[t]
                exit_price == last'.arg
                realized == IF pos.side = "BUY"
                            THEN (exit_price - pos.entry_price) * pos.quantity
                            ELSE (pos.entry_price - exit_price) * pos.quantity
            IN /\ t \notin DOMAIN positions'
               /\ portfolio_value' = portfolio_value + realized
               /\ daily_pnl' = daily_pnl + realized
               /\ realized_sum' = realized_sum + realized
               /\ peak_value' = IF portfolio_value' > peak_value
                                THEN portfolio_value' ELSE peak_value
       /\ portfolio_value' = start_value' + realized_sum'
      ]_vars

\* a SELL Position was closed above its entry price: the realized P&L is a
\* loss and portfolio_value falls below the value the engine started with
C9_Witness_ShortLoss ==
    /\ last.op = "close_position" /\ last.ret = "closed"
    /\ last.arg = 3000
    /\ portfolio_value < start_value
    /\ realized_sum < 0

\* C10: after each completed register_position, update_position and
\* close_position on an open ticker, and reset_daily, the persisted document
\* equals the in-memory state.
C10_PersistedEqualsMemory ==
    (\/ last.op \in {"register_position", "reset_daily"}
     \/ last.op = "update_position" /\ last.ret = "updated"
     \/ last.op = "close_position" /\ last.ret = "closed")
    => state_file = [kind |-> "doc", doc |-> Memory]

(***************************************************************************)
(* Properties of the state file, checked under SpecPersist (every write    *)
(* and read succeeds) and under Spec (writes and reads may fail).          *)
(***************************************************************************)
PortfolioState == <<portfolio_value, peak_value, daily_pnl, positions>>

\* C11: persistence round trip: a RiskEngine constructed over the state
\* file the engine saved has the portfolio_value, peak_value, daily_pnl and
\* positions the engine had, whatever the configured portfolio_value is.
C11_RoundTrip ==
    [][last'.op = "restart" => PortfolioState' = PortfolioState]_vars

\* a restart reloaded a state that differs from the configured defaults in
\* every field
C11_Witness_ReloadedNonDefault ==
    /\ last.op = "restart" /\ last.ret = "loaded"
    /\ portfolio_value # config_portfolio_value
    /\ peak_value # config_portfolio_value
    /\ daily_pnl # 0
    /\ positions # NoPositions

\* the call that led to the state wrote no document of the new state: its
\* write of the state file failed
WriteFailed == state_file # [kind |-> "doc", doc |-> Memory]

\* C12: persistence failures are swallowed.  A register_position,
\* update_position, close_position or reset_daily whose write of the state
\* file fails returns as usual with its in-memory mutation applied; a
\* RiskEngine constructed over a missing or unreadable state file starts from
\* the configured defaults.
C12_FailuresSwallowed ==
    [][LET t == last'.ticker IN
       /\ (last'.op = "register_position" /\ WriteFailed') =>
            /\ last'.ret \in {"created", "replaced"}
            /\ DOMAIN positions' = DOMAIN positions \cup {t}
            /\ positions'[t].current_price = positions'[t].entry_price
            /\ positions'[t].unrealized_pnl = 0
            /\ \A u \in DOMAIN positions \ {t} : positions'[u] = positions[u]
            /\ UNCHANGED <<portfolio_value, peak_value, daily_pnl>>
       /\ (last'.op = "update_position" /\ t \in DOMAIN positions
              /\ WriteFailed') =>
            /\ last'.ret = "updated"
            /\ positions' = [positions EXCEPT
                   ![t].current_price = last'.arg,
                   ![t].unrealized_pnl = PnL(positions[t], last'.arg)]
            /\ UNCHANGED <<portfolio_value, peak_value, daily_pnl>>
       /\ (last'.op = "close_position" /\ t \in DOMAIN positions
              /\ WriteFailed') =>
            /\ last'.ret = "closed"
            /\ portfolio_value' = portfolio_value + PnL(positions[t], last'.arg)
            /\ daily_pnl' = daily_pnl + PnL(positions[t], last'.arg)
            /\ positions' = DictDel(positions, t)
       /\ (last'.op = "reset_daily" /\ WriteFailed') =>
            /\ last'.ret = "none"
            /\ daily_pnl' = 0
            /\ UNCHANGED <<portfolio_value, peak_value, positions>>
       /\ (last'.op = "restart" /\ last'.ret = "defaults") =>
            /\ portfolio_value' = config_portfolio_value
            /\ peak_value' = config_portfolio_value
            /\ daily_pnl' = 0
            /\ positions' = NoPositions
      ]_vars

\* a close whose write failed kept its result in memory, with the file left
\* as text that is no document: the next construction starts from the defaults
C12_Witness_CloseUnsaved ==
    /\ last.op = "close_position" /\ last.ret = "closed"
    /\ state_file.kind = "corrupt"
    /\ portfolio_value # config_portfolio_value

\* calls in a run of SpecValidator
MaxValidatorOps == 2

\* signals, prices and price-history outcomes put to validate_and_size
ValidatorSignals ==
    {Signal(d, Num(80), Num(20), Num(-5), Num(10), "") :
        d \in {"BUY", "SELL", "HOLD", "MISSING", "WAIT"}}
    \cup {Signal("BUY", c, Num(20), Num(-5), Num(10), "") : c \in {Num(30), NonNum}}
    \cup {Signal("BUY", Num(80), Num(20), Num(0), Num(10), "")}
ValidatorPrices == {0, 1000}
Markets == {[kind |-> "fetch_error", bars |-> 0, windows |-> <<>>],
            [kind |-> "history", bars |-> 250, windows |-> <<GoodStats>>],
            [kind |-> "history", bars |-> 250, windows |-> <<BadStats>>]}

ValidateAndSize ==
    /\ ops < MaxValidatorOps
    /\ \E signal \in ValidatorSignals, p \in ValidatorPrices, skip \in BOOLEAN,
          market \in Markets, l \in LogOutcomes :
          /\ skip => market.kind = "fetch_error"
          /\ validate_and_size_call(signal, p, "AAA", skip, market, l)

\* a signal for a share whose price is above the position cap of the
\* portfolio (20% of 10000)
ValidateAndSizeAboveCap ==
    /\ ops < MaxValidatorOps
    /\ validate_and_size_call(Signal("BUY", Num(80), Num(20), Num(-5), Num(10), ""),
                              3000, "AAA", TRUE,
                              [kind |-> "fetch_error", bars |-> 0,
                               windows |-> <<>>], "ok")

\* the caller of the last validate_and_size calls it again with the same
\* signal dict, price, ticker and flag, over the same price history
ValidateAndSizeAgain ==
    /\ ops < MaxValidatorOps
    /\ last.op = "validate_and_size"
    /\ \E l \in LogOutcomes :
          validate_and_size_call(last.ret.signal, last.arg.current_price,
                                 last.ticker, last.arg.skip_backtest,
                                 last.arg.market, l)

\* SignalValidator over its RiskEngine: validate_and_size between the
\* engine's mutating calls
NextValidator ==
    \/ Register(MaxValidatorOps, {"ok"})
    \/ Update(MaxValidatorOps, {"ok"})
    \/ Close(MaxValidatorOps, {"ok"})
    \/ ResetDaily(MaxValidatorOps, {"ok"})
    \/ ValidateAndSize
    \/ ValidateAndSizeAboveCap
    \/ ValidateAndSizeAgain

SpecValidator == Init /\ [][NextValidator]_vars

(***************************************************************************)
(* Properties of validate_and_size, checked under SpecValidator.           *)
(***************************************************************************)
Validated == last.op = "validate_and_size"
ValidatedAndReturned == Validated /\ last.ret.outcome = "returned"

IsPrefix(p, q) == Len(p) <= Len(q) /\ \A i \in 1..Len(p) : p[i] = q[i]

\* the gates' collaborators, in the order of the pipeline
GateOrder(skip_backtest) ==
    IF skip_backtest THEN <<"risk_engine", "position_sizer">>
    ELSE <<"backtester", "risk_engine", "position_sizer">>

\* C5: the gates of validate_and_size run in the order backtest, risk,
\* sizing and the call ends at the first rejection: a gate is consulted only
\* if every earlier gate was consulted and passed, the reason of a rejection
\* starts with the prefix of the first (and only) rejecting gate, a HOLD
\* signal consults no gate, and with skip_backtest set the backtester is
\* never consulted and no result is a backtest rejection.
C5_ForwardOnlyGates ==
    Validated =>
      LET c == last.ret.consulted
          skip == last.arg.skip_backtest
      IN
      /\ IsPrefix(c, GateOrder(skip))
      /\ skip => "backtester" \notin Range(c)
      /\ last.arg.signal.decision = "HOLD" => c = <<>>
      /\ last.ret.outcome = "returned" =>
           LET r == last.ret.result
               steps == r.steps
               bt_rejects == /\ "backtester" \in Range(c)
                             /\ ~steps.backtest.approved
               risk_rejects == /\ "risk_engine" \in Range(c)
                               /\ ~steps.risk.approved
               size_rejects == /\ "position_sizer" \in Range(c)
                               /\ steps.position_sizing.quantity <= 0
           IN
           /\ bt_rejects => /\ c = <<"backtester">>
                            /\ ~r.approved
                            /\ Head(r.reason) = "BACKTEST REJECTED"
           /\ risk_rejects => /\ c[Len(c)] = "risk_engine"
                              /\ ~r.approved
                              /\ Head(r.reason) = "RISK REJECTED"
           /\ size_rejects => /\ ~r.approved
                              /\ Head(r.reason) = "SIZING REJECTED"
           /\ r.approved => ~bt_rejects /\ ~risk_rejects /\ ~size_rejects
           /\ (r.approved /\ r.decision # "HOLD") => c = GateOrder(skip)
           /\ ~r.approved => bt_rejects \/ risk_rejects \/ size_rejects
           /\ skip => Head(r.reason) # "BACKTEST REJECTED"

\* a call ended at the backtest gate: the signal would have passed the risk
\* gate, which was not consulted
C5_Witness_BacktestRejected ==
    /\ ValidatedAndReturned
    /\ last.arg.signal.confidence = Num(80)
    /\ last.arg.current_price > 0
    /\ Head(last.ret.result.reason) = "BACKTEST REJECTED"
    /\ last.ret.consulted = <<"backtester">>

\* C6: every call of validate_and_size appends exactly one record to the
\* audit log, whatever the outcome, the record being the call's
\* ValidationResult; the records already in the log stay as they are.
C6_EveryCallLogged ==
    [][/\ IsPrefix(audit_log, audit_log')
       /\ last'.op = "validate_and_size" =>
            /\ Len(audit_log') = Len(audit_log) + 1
            /\ last'.ret.outcome = "returned" =>
                   audit_log'[Len(audit_log')] = last'.ret.result
      ]_vars

\* C21: validate_and_size on a HOLD signal ends at the decision gate with
\* approved = true, no order and an empty steps record; the backtester, the
\* risk engine and the position sizer are not consulted, in every portfolio
\* state and for every price.
C21_HoldEndsAtDecisionGate ==
    (Validated /\ last.arg.signal.decision = "HOLD") =>
        /\ last.ret.outcome = "returned"
        /\ last.ret.result.approved
        /\ last.ret.result.order = None
        /\ DOMAIN last.ret.result.steps = {}
        /\ last.ret.consulted = <<>>

\* a HOLD at price 0 with an open Position, the backtest not skipped
C21_Witness_HoldZeroPrice ==
    /\ Validated /\ last.arg.signal.decision = "HOLD"
    /\ last.arg.current_price = 0
    /\ ~last.arg.skip_backtest
    /\ positions # NoPositions
    /\ last.ret.result.approved

\* the steps record of the last ValidationResult holds the result of every
\* gate evaluated in the call and of no other
StepsHoldEvaluatedGates ==
    LET r == last.ret.result
        c == Range(last.ret.consulted)
        hold == last.arg.signal.decision = "HOLD"
        signal == [last.arg.signal EXCEPT !.ticker = last.ticker]
    IN
    /\ DOMAIN r.steps =
          (IF hold THEN {} ELSE {"backtest"})
          \cup (IF "risk_engine" \in c THEN {"risk"} ELSE {})
          \cup (IF "position_sizer" \in c THEN {"position_sizing"} ELSE {})
    /\ (~hold /\ last.arg.skip_backtest) => r.steps.backtest = [skipped |-> TRUE]
    /\ "backtester" \in c =>
          r.steps.backtest =
            backtest_signal(last.ticker, signal.decision,
                            Get(signal.stop_loss_pct, -5),
                            Get(signal.target_pct, 5), last.arg.market)
    /\ "risk_engine" \in c =>
          r.steps.risk = validate_trade(signal, portfolio_value, peak_value,
                                        daily_pnl, positions)
    /\ "position_sizer" \in c =>
          LET adjusted == r.steps.risk.adjusted_signal IN
          r.steps.position_sizing =
            calculate_position(last.arg.current_price,
                               Get(adjusted.stop_loss_pct, -5),
                               Get(adjusted.target_pct, 5),
                               Get(adjusted.confidence, 50), portfolio_value)

\* C26 as stated: every ValidationResult returned by validate_and_size, on
\* HOLD, on each kind of rejection and on approval, carries ticker,
\* decision, current_price, timestamp, steps, approved, order, reason and
\* warnings, and its steps record holds the result of every gate evaluated.
C26_ResultShapeAsStated ==
    ValidatedAndReturned =>
      /\ last.ret.result.keys =
            {"ticker", "decision", "current_price", "timestamp", "steps",
             "approved", "order", "reason", "warnings"}
      /\ StepsHoldEvaluatedGates

\* C26, amended: every ValidationResult returned by validate_and_size
\* carries ticker, decision, current_price, timestamp, steps, approved,
\* order and reason; it carries warnings exactly when an Order was
\* approved, not on HOLD and not on a rejection; its steps record holds the
\* result of every gate evaluated in the call (backtest result or skipped
\* marker, risk result, position_sizing result).
C26_ResultShape ==
    ValidatedAndReturned =>
      LET r == last.ret.result IN
      /\ {"ticker", "decision", "current_price", "timestamp", "steps",
          "approved", "order", "reason"} \subseteq r.keys
      /\ r.keys \subseteq {"ticker", "decision", "current_price", "timestamp",
                            "steps", "approved", "order", "reason", "warnings"}
      /\ "warnings" \in r.keys <=> (r.approved /\ r.order # None)
      /\ (r.approved /\ r.order # None) => r.warnings = r.steps.risk.warnings
      /\ StepsHoldEvaluatedGates

\* a risk rejection whose risk result has a warning: the ValidationResult
\* has no warnings key
C26_Witness_RejectedNoWarningsKey ==
    /\ ValidatedAndReturned
    /\ ~last.ret.result.approved
    /\ Head(last.ret.result.reason) = "RISK REJECTED"
    /\ last.ret.result.steps.risk.warnings # <<>>
    /\ "warnings" \notin last.ret.result.keys

\* C27: for every approved Order the position limits hold against the
\* RiskEngine's portfolio_value at the time of the call: investment_amount
\* <= portfolio_value * max_position_pct / 100 and risk_amount <=
\* portfolio_value * max_risk_per_trade_pct / 100, also when a candidate
\* quantity is 0.
C27_OrderWithinLimits ==
    (ValidatedAndReturned /\ last.ret.result.order # None) =>
        LET order == last.ret.result.order IN
        /\ order.investment_amount * 100 <= portfolio_value * max_position_pct
        /\ order.risk_amount * 100 <= portfolio_value * max_risk_per_trade_pct

\* C36: for a signal whose decision is BUY, SELL or HOLD, the result's
\* order is non-null iff approved is true and the decision is BUY or SELL,
\* and the Order of an approved BUY/SELL signal has side = the signal's
\* decision, quantity = the SizingResult quantity, which is >= 1,
\* order_type "LIMIT", price = current_price, and stop_loss, target,
\* investment_amount and risk_amount as in the SizingResult of the result's
\* steps.
C36_OrderAssembled ==
    (ValidatedAndReturned
     /\ last.arg.signal.decision \in {"BUY", "SELL", "HOLD"}) =>
        LET result == last.ret.result
            order == result.order
            decision == last.arg.signal.decision
        IN
        /\ order # None <=> (result.approved /\ decision \in {"BUY", "SELL"})
        /\ order # None =>
              LET sizing == result.steps.position_sizing IN
              /\ order.ticker = last.ticker
              /\ order.side = decision
              /\ order.quantity = sizing.quantity
              /\ order.quantity >= 1
              /\ order.order_type = "LIMIT"
              /\ order.price = last.arg.current_price
              /\ order.stop_loss = sizing.stop_loss_price
              /\ order.target = sizing.target_price
              /\ order.investment_amount = sizing.investment_amount
              /\ order.risk_amount = sizing.risk_amount

\* an approved SELL signal with its Order of two shares short at 1000
C36_Witness_SellOrder ==
    /\ ValidatedAndReturned
    /\ last.arg.signal.decision = "SELL"
    /\ last.ret.result.approved
    /\ last.ret.result.order # None
    /\ last.ret.result.order.side = "SELL"
    /\ last.ret.result.order.quantity = 2
    /\ last.ret.result.order.price = 1000
    /\ last.ret.result.order.stop_loss = 950

\* C33: within one validate_and_size call the backtest gate, the risk gate
\* and the sizing gate evaluate the same stop_loss_pct and target_pct, the
\* values from which the Order's stop_loss and target are computed, also
\* for a signal whose stop_loss_pct or target_pct is zero or missing and is
\* replaced by a default.  The values are compared as the gates normalise
\* them: the backtest simulates with -|stop| and |target|, the sizer with
\* -|stop| and |target|, a zero replaced by 5.
C33_GatesSeeSameBracket ==
    (/\ ValidatedAndReturned
     /\ last.ret.result.order # None
     /\ "backtester" \in Range(last.ret.consulted)) =>
        LET g == GateArguments(last.arg.signal, last.ticker, portfolio_value,
                               peak_value, daily_pnl, positions)
            order == last.ret.result.order
            magnitude(x) == IF x < 0 THEN -x ELSE x
            sized(x) == IF x = 0 THEN 5 ELSE magnitude(x)
        IN
        /\ magnitude(g.backtest.stop_loss_pct.v)
             = sized(g.position_sizing.stop_loss_pct.v)
        /\ magnitude(g.backtest.target_pct.v)
             = sized(g.position_sizing.target_pct.v)
        /\ g.risk.stop_loss_pct.v = g.backtest.stop_loss_pct.v
        /\ order.stop_loss * 100
             = order.price * (100 - magnitude(g.backtest.stop_loss_pct.v))
        /\ order.target * 100
             = order.price * (100 + magnitude(g.backtest.target_pct.v))

\* C13: idempotence: a second call of validate_and_size with the same
\* signal, ticker, price and price history, and no register, close or reset
\* between the two, ends as the first did and returns the same
\* ValidationResult (approved, order, reason, warnings and steps).
C13_Idempotent ==
    [][(last'.op = "validate_and_size" /\ last'.arg.again) =>
          /\ last'.ret.outcome = last.ret.outcome
          /\ last'.ret.outcome = "returned" =>
                last'.ret.result = last.ret.result
      ]_vars

\* C7: validate_and_size never raises: every call ends in a structured
\* result carrying a boolean and a reason.
C7_NeverRaises ==
    Validated =>
        /\ last.ret.outcome = "returned"
        /\ last.ret.result.approved \in BOOLEAN
        /\ Len(last.ret.result.reason) > 0

\* C24: check_stop_losses returns exactly the tickers of the open Positions
\* whose current_price has crossed the stop in the adverse direction (BUY
\* with current_price <= stop_loss, SELL with current_price >= stop_loss)
\* and changes no state: no Position is closed and the state file is not
\* rewritten.
C24_StopLossAlerts ==
    [][last'.op = "check_stop_losses" =>
         /\ last'.ret =
               {t \in DOMAIN positions :
                  \/ /\ positions[t].side = "BUY"
                     /\ positions[t].current_price <= positions[t].stop_loss
                  \/ /\ positions[t].side = "SELL"
                     /\ positions[t].current_price >= positions[t].stop_loss}
         /\ UNCHANGED <<portfolio_value, peak_value, daily_pnl, positions,
                        state_file>>
      ]_vars

\* a SELL Position marked above its stop is reported, a BUY Position marked
\* above its stop is not
C24_Witness_ShortStopped ==
    /\ last.op = "check_stop_losses"
    /\ \E t \in DOMAIN positions, u \in DOMAIN positions :
          /\ positions[t].side = "SELL" /\ positions[t].current_price = 1100
          /\ positions[u].side = "BUY" /\ positions[u].current_price = 1100
          /\ last.ret = {t}

\* C25: get_portfolio_summary is a read-only snapshot; kill_switch_active
\* is true exactly when (peak_value - portfolio_value) / peak_value * 100
\* >= max_portfolio_drawdown_pct, and open_positions is the number of
\* entries of the positions map.
C25_SummarySnapshot ==
    [][last'.op = "get_portfolio_summary" =>
         /\ last'.ret.kill_switch_active <=>
               PctAtLeast(peak_value - portfolio_value, peak_value,
                          max_portfolio_drawdown_pct)
         /\ last'.ret.open_positions = Cardinality(DOMAIN positions)
         /\ last'.ret.portfolio_value = portfolio_value
         /\ last'.ret.peak_value = peak_value
         /\ last'.ret.daily_pnl = daily_pnl
         /\ UNCHANGED <<portfolio_value, peak_value, daily_pnl, positions,
                        state_file>>
      ]_vars

\* a summary taken with the kill switch active and a Position open
C25_Witness_KillSwitchOn ==
    /\ last.op = "get_portfolio_summary"
    /\ last.ret.kill_switch_active
    /\ last.ret.open_positions = 1
    /\ portfolio_value < peak_value

\* C23: reset_daily sets daily_pnl to 0 and leaves portfolio_value,
\* peak_value and positions unchanged; daily_pnl is changed by nothing but
\* close_position, which adds the realized P&L, and reset_daily, and is not
\* reset by a restart, so that it is the sum of the realized P&L of the
\* closes since the last reset_daily.
C23_DailyPnlFrame ==
    [][/\ last'.op = "reset_daily" =>
            /\ daily_pnl' = 0
            /\ UNCHANGED <<portfolio_value, peak_value, positions>>
       /\ (last'.op = "close_position" /\ last'.ret = "closed") =>
            daily_pnl' = daily_pnl + PnL(positions[last'.ticker], last'.arg)
       /\ ~(\/ last'.op = "reset_daily"
            \/ last'.op = "close_position" /\ last'.ret = "closed") =>
            daily_pnl' = daily_pnl
      ]_vars

(***************************************************************************)
(* Properties of calculate_position, checked under SpecSizer.              *)
(***************************************************************************)
Sized == last.op = "calculate_position"
SizedValid ==
    Sized /\ last.arg.current_price > 0 /\ last.arg.portfolio_value > 0

\* the three candidate quantities of the last call
Candidates ==
    {last.ret.details.qty_by_risk_limit, last.ret.details.qty_by_kelly,
     last.ret.details.qty_by_max_position}

\* C14: for current_price > 0 and portfolio_value > 0 the quantity is the
\* minimum of the three candidate quantities, exceeds none of them, and is
\* >= 1 whenever all three candidates are >= 1.
C14_QuantityIsMinimum ==
    SizedValid =>
      /\ last.ret.quantity \in Candidates
      /\ \A q \in Candidates : last.ret.quantity <= q
      /\ (\A q \in Candidates : q >= 1) => last.ret.quantity >= 1

\* C15: calculate_position returns a zero-quantity result whose method
\* starts with REJECTED whenever current_price <= 0 or the portfolio_value
\* passed to it is <= 0, exactly 0 included.
C15_ZeroQuantityRejected ==
    (Sized /\ (last.arg.current_price <= 0 \/ last.arg.portfolio_value <= 0)) =>
        /\ last.ret.quantity = 0
        /\ last.ret.method = MethodInvalid

\* floor(n / d) = q for d > 0
IsFloor(q, n, d) == q * d <= n /\ n < (q + 1) * d

Backtested == last.op = "backtest_signal"
BacktestedTrade == Backtested /\ last.arg.decision \in {"BUY", "SELL"}

\* no statistics can be had from the price history of the last call
DataUnavailable ==
    LET market == last.arg.market IN
    \/ market.kind \in {"no_yfinance", "fetch_error", "simulation_error"}
    \/ market.bars < 30
    \/ market.windows = <<>>
    \/ last.arg.stop_loss_pct.k = "nonnum"

FailOpenReasons ==
    {<<"yfinance not available - skipping backtest">>,
     <<"Backtest error (proceeding anyway)">>,
     <<"Insufficient historical data">>,
     <<"No valid backtest trades generated">>}

\* C17: fail-open backtest: for a BUY or SELL signal, when the fetch fails,
\* returns no or fewer than 30 observations, no trade can be simulated or an
\* error occurs in the simulation, backtest_signal returns approved = true
\* with trade_count 0 and a reason that says why.
C17_FailOpen ==
    (BacktestedTrade /\ DataUnavailable) =>
        /\ last.ret.result.approved
        /\ last.ret.result.trade_count = 0
        /\ last.ret.result.reason \in FailOpenReasons

\* 29 observations of a history whose statistics would be rejected
C17_Witness_TooFewBars ==
    /\ BacktestedTrade
    /\ last.arg.market.bars = 29
    /\ last.arg.market.windows = <<BadStats>>
    /\ last.ret.result.reason = <<"Insufficient historical data">>

\* the failure messages of the thresholds a window's statistics violate
ThresholdMessages(st) ==
    (IF st.win_rate < 400 THEN <<"Low win rate">> ELSE <<>>)
    \o (IF st.sharpe_ratio < 50 THEN <<"Low Sharpe">> ELSE <<>>)
    \o (IF st.max_drawdown_pct > 2500 THEN <<"High drawdown">> ELSE <<>>)

\* C18: when trades were simulated, backtest_signal reports the statistics
\* of the window with the highest sharpe_ratio, the first in configured
\* order on a tie, and decides on that window alone: approved iff
\* win_rate >= 0.4, sharpe_ratio >= 0.5 and max_drawdown_pct <= 25.0, and
\* not approved iff the reason is the messages of the violated thresholds.
C18_BestWindowDecides ==
    (BacktestedTrade /\ ~DataUnavailable) =>
      LET w == last.arg.market.windows
          r == last.ret.result
      IN \E i \in 1..Len(w) :
           /\ \A j \in 1..Len(w) : w[j].sharpe_ratio <= w[i].sharpe_ratio
           /\ \A j \in 1..(i - 1) : w[j].sharpe_ratio < w[i].sharpe_ratio
           /\ r.best_hold_period = test_windows[i]
           /\ r.win_rate = w[i].win_rate
           /\ r.sharpe_ratio = w[i].sharpe_ratio
           /\ r.max_drawdown_pct = w[i].max_drawdown_pct
           /\ r.trade_count = w[i].trade_count
           /\ r.approved <=> (/\ w[i].win_rate >= 400
                               /\ w[i].sharpe_ratio >= 50
                               /\ w[i].max_drawdown_pct <= 2500)
           /\ ~r.approved <=> (/\ r.reason = ThresholdMessages(w[i])
                                /\ r.reason # <<>>)

\* two windows tie on sharpe_ratio: the first, with a low win rate, decides,
\* though the second passes every threshold
C18_Witness_TieTakesFirst ==
    /\ BacktestedTrade /\ ~DataUnavailable
    /\ last.arg.market.windows = <<Stats(399, 120, 800), GoodStats>>
    /\ last.ret.result.reason = <<"Low win rate">>

\* C19: backtest_signal with decision HOLD returns approved = true with
\* trade_count 0 and zero statistics and fetches no price history, whatever
\* the ticker, stop_loss_pct and target_pct.
C19_HoldNoBacktest ==
    (Backtested /\ last.arg.decision = "HOLD") =>
        /\ last.ret.result.approved
        /\ last.ret.result.trade_count = 0
        /\ last.ret.result.win_rate = 0
        /\ last.ret.result.sharpe_ratio = 0
        /\ last.ret.result.max_drawdown_pct = 0
        /\ ~last.ret.fetched

\* a HOLD over a history whose statistics would be rejected for a trade
C19_Witness_HoldBadHistory ==
    /\ Backtested /\ last.arg.decision = "HOLD"
    /\ last.arg.market.kind = "history" /\ last.arg.market.bars = 250
    /\ last.arg.market.windows = <<BadStats>>
    /\ last.arg.stop_loss_pct = NonNum
    /\ last.ret.result.approved

(***************************************************************************)
(* AQIOrchestrator.run over the SignalValidator and its RiskEngine.  The   *)
(* AI brain and the execution layer are collaborators: ai is what the AI   *)
(* brain gave (a structured signal, or an exception), current_price the    *)
(* price passed in or fetched (0 when the fetch failed), executed the      *)
(* success flag of the live broker's place_order; in the other modes the   *)
(* body is the PaperTrader.  mode is the orchestrator's mode, given         *)
(* with each run.  The result record is the value of the call, which       *)
(* _log_result appends to the results log, swallowing a failure.           *)
(***************************************************************************)
\* PaperTrader.place_order.  slippage_pct is 0.1: a BUY fills at
\* price * 1.001, a SELL at price * 0.999; the prices drawn are multiples of
\* 1000, so that the fill price is a whole number.  The value is the success
\* flag and the PaperTrader after the call; _save_state writes the state
\* document, _log_trade appends to paper_trades.jsonl, which nothing reads.
PaperDoc(p) ==
    [kind |-> "doc", capital |-> p.capital, positions |-> p.positions,
     trade_count |-> Len(p.trade_history), order_counter |-> p.order_counter]

PaperPosition(order, fill_price) ==
    [ticker |-> order.ticker, side |-> order.side, quantity |-> order.quantity,
     entry_price |-> fill_price, stop_loss |-> order.stop_loss,
     target |-> order.target]

place_order(order, p) ==
    LET counted == [p EXCEPT !.order_counter = @ + 1]
        fill_price == IF order.side = "BUY"
                      THEN (order.price * 1001) \div 1000
                      ELSE (order.price * 999) \div 1000
        cost == fill_price * order.quantity
        saved(q) == [q EXCEPT !.state_file = PaperDoc(q)]
    IN
    IF order.side = "BUY"
    THEN IF cost > p.capital
         THEN [success |-> FALSE, paper |-> counted]
         ELSE [success |-> TRUE,
               paper |-> saved([counted EXCEPT
                            !.capital = @ - cost,
                            !.positions = DictSet(@, order.ticker,
                                              PaperPosition(order, fill_price))])]
    ELSE IF order.side = "SELL"
    \* a SELL opens a short position unless the ticker is held, and closes
    \* the held position otherwise
    THEN IF order.ticker \notin DOMAIN p.positions
         THEN [success |-> TRUE,
               paper |-> saved([counted EXCEPT
                            !.capital = @ + cost,
                            !.positions = DictSet(@, order.ticker,
                                              PaperPosition(order, fill_price))])]
         ELSE LET pos == p.positions[order.ticker] IN
              [success |-> TRUE,
               paper |-> saved([counted EXCEPT
                            !.capital = @ + pos.quantity * fill_price,
                            !.trade_history = Append(@,
                                [ticker |-> order.ticker,
                                 entry_price |-> pos.entry_price,
                                 exit_price |-> fill_price,
                                 quantity |-> pos.quantity,
                                 pnl |-> (fill_price - pos.entry_price)
                                            * pos.quantity]),
                            !.positions = DictDel(@, order.ticker)])]
    ELSE [success |-> TRUE, paper |-> saved(counted)]

RunResult(final_status, reason, order) ==
    [outcome |-> "returned", final_status |-> final_status, reason |-> reason,
     order |-> order]

RegistersAlways(mode, executed) == TRUE

\* Stage 3: mode is not signal_only and execution_result["success"]
Registers(mode, executed) == mode # "signal_only" /\ executed

run(ticker, ai, current_price, skip_backtest, mode, market, executed, w, l) ==
    LET structured_signal == [ai.signal EXCEPT !.ticker = ticker]
        Arg(success) == [ai |-> ai, current_price |-> current_price,
                         skip_backtest |-> skip_backtest, mode |-> mode,
                         market |-> market, executed |-> success]
        arg == Arg(executed)
    IN
    /\ ops' = ops + 1
    /\ UNCHANGED <<portfolio_value, peak_value, daily_pnl, start_value,
                   realized_sum>>
    /\ IF ai.kind = "raises"
       THEN /\ last' = Call("run", ticker, arg,
                            RunResult("FAILED_AT_AI_BRAIN", <<>>, None))
            /\ UNCHANGED <<positions, state_file, audit_log, paper>>
       ELSE IF structured_signal.decision = "HOLD"
       THEN /\ last' = Call("run", ticker, arg, RunResult("HOLD", <<>>, None))
            /\ UNCHANGED <<positions, state_file, audit_log, paper>>
       ELSE IF current_price <= 0
       THEN /\ last' = Call("run", ticker, arg,
                            RunResult("FAILED_NO_PRICE", <<>>, None))
            /\ UNCHANGED <<positions, state_file, audit_log, paper>>
       \* Stage 2
       ELSE \E validation \in {validate_and_size(structured_signal,
                                   current_price, ticker, skip_backtest, market,
                                   portfolio_value, peak_value, daily_pnl,
                                   positions)} :
       IF validation.outcome = "raised"
       THEN /\ last' = Call("run", ticker, arg,
                            [outcome |-> "raised", exc |-> validation.exc])
            /\ UNCHANGED <<positions, state_file, audit_log, paper>>
       ELSE
       /\ audit_log' = _log(audit_log, validation.result, l)
       /\ IF ~validation.result.approved
          THEN /\ last' = Call("run", ticker, arg,
                               RunResult("REJECTED_BY_QUANT",
                                         validation.result.reason, None))
               /\ UNCHANGED <<positions, state_file, paper>>
          \* Stage 3
          ELSE IF mode = "signal_only"
          THEN /\ last' = Call("run", ticker, arg,
                               RunResult("SIGNAL_GENERATED", <<>>,
                                         validation.result.order))
               /\ UNCHANGED <<positions, state_file, paper>>
          ELSE \E execution_result \in
                     {IF mode = "live"
                      THEN [success |-> executed, paper |-> paper]
                      ELSE place_order(validation.result.order, paper)} :
          /\ paper' = execution_result.paper
          /\ IF Registers(mode, execution_result.success)
             THEN /\ positions' = DictSet(positions, ticker,
                                     NewPosition(ticker,
                                         validation.result.order.quantity,
                                         current_price,
                                         validation.result.order.stop_loss,
                                         validation.result.order.target,
                                         validation.result.order.side))
                  /\ state_file' = SaveState(w, StateDoc(portfolio_value,
                                        peak_value, daily_pnl, positions'),
                                        state_file)
                  /\ last' = Call("run", ticker,
                                  Arg(execution_result.success),
                                  RunResult("EXECUTED", <<>>,
                                            validation.result.order))
             ELSE /\ last' = Call("run", ticker,
                                  Arg(execution_result.success),
                                  RunResult("EXECUTION_FAILED", <<>>, None))
                  /\ UNCHANGED <<positions, state_file>>

MaxRuns == 3

WatchlistTickers == {"AAA", "BBB", "CCC"}
NoSignal == Signal("HOLD", Num(0), Num(0), Num(0), Num(0), "")
\* what the AI brain gives: process_signal_structured returns a decision of
\* BUY, SELL or HOLD and numbers
AiOutcomes ==
    {[kind |-> "raises", signal |-> NoSignal]}
    \cup {[kind |-> "signal",
           signal |-> Signal(d, Num(80), Num(20), Num(-5), Num(10), "")] :
             d \in {"BUY", "SELL", "HOLD"}}
RunMarkets ==
    {[skip_backtest |-> TRUE,
      market |-> [kind |-> "fetch_error", bars |-> 0, windows |-> <<>>]],
     [skip_backtest |-> FALSE,
      market |-> [kind |-> "history", bars |-> 250, windows |-> <<BadStats>>]]}

\* how many of price, backtest and mode differ from a run with a price, the
\* backtest skipped and paper mode
Changed(i) ==
    (IF i.current_price = 0 THEN 1 ELSE 0)
    + (IF i.m.skip_backtest THEN 0 ELSE 1)
    + (IF i.mode = "paper" THEN 0 ELSE 1)

\* the runs drawn: every AI outcome with nothing changed, and each BUY or
\* SELL signal also with one thing changed
RunInputs ==
    {i \in [ai : AiOutcomes, current_price : {0, 1000}, m : RunMarkets,
            mode : {"paper", "signal_only", "live"}, executed : BOOLEAN] :
        \* executed is the live broker's answer
        /\ i.mode # "live" => i.executed
        /\ \/ Changed(i) = 0
           \/ /\ Changed(i) = 1
              /\ i.ai.kind = "signal"
              /\ i.ai.signal.decision # "HOLD"}

\* one run of the watchlist; the changed runs are drawn for ticker AAA
Run ==
    /\ ops < MaxRuns
    /\ \E ticker \in WatchlistTickers, i \in RunInputs :
          /\ Changed(i) = 1 => ticker = "AAA"
          /\ run(ticker, i.ai, i.current_price, i.m.skip_backtest, i.mode,
                 i.m.market, i.executed, "ok", "ok")

\* the orchestrator's runs, one ticker at a time, between marks of the open
\* Positions and stop-loss checks
NextOrchestrator ==
    \/ Run
    \/ UpdateToStop(MaxRuns)
    \/ CheckStopLosses

SpecOrchestrator == Init /\ [][NextOrchestrator]_vars

(***************************************************************************)
(* Properties of AQIOrchestrator.run, checked under SpecOrchestrator.      *)
(***************************************************************************)
Executed ==
    /\ last.op = "run" /\ last.ret.outcome = "returned"
    /\ last.ret.final_status = "EXECUTED"

\* C28: a Position registered from an approved Order has its stop on the
\* adverse side of the entry price, below it for BUY and above it for SELL,
\* so that check_stop_losses does not return its ticker until an
\* update_position has moved current_price adversely to the stop.
C28_StopOnAdverseSide ==
    [][/\ Executed =>
            LET pos == positions[last.ticker] IN
            /\ pos.side = "BUY" => pos.stop_loss < pos.entry_price
            /\ pos.side = "SELL" => pos.stop_loss > pos.entry_price
       /\ (Executed /\ last'.op = "check_stop_losses") =>
            last.ticker \notin last'.ret
      ]_vars

\* C29: in a sequential watchlist run the risk gate of each ticker sees
\* the Positions registered for the earlier tickers, and the number of open
\* Positions never exceeds max_open_positions, for any mix of BUY and SELL
\* signals.
C29_OpenPositionsBounded ==
    /\ Cardinality(DOMAIN positions) <= max_open_positions
    /\ (last.op = "run" /\ last.ret.outcome = "returned"
        /\ last.ret.final_status \in {"EXECUTED", "EXECUTION_FAILED",
                                      "SIGNAL_GENERATED"}
        /\ last.arg.ai.signal.decision = "BUY") =>
          Cardinality(DOMAIN positions \ {last.ticker}) < max_open_positions

\* C30: in AQIOrchestrator.run a Position is registered in the RiskEngine
\* only after validate_and_size approved an Order and the execution
\* collaborator reported success for it; on HOLD, missing price, quant
\* rejection, signal_only mode or execution failure portfolio_value,
\* peak_value, daily_pnl and positions are left unchanged; every run ends
\* with exactly one final_status.
C30_RegisterOnlyAfterExecution ==
    [][last'.op = "run" =>
         LET a == last'.arg
             ret == last'.ret
             signal == [a.ai.signal EXCEPT !.ticker = last'.ticker]
             validation == validate_and_size(signal, a.current_price,
                               last'.ticker, a.skip_backtest, a.market,
                               portfolio_value, peak_value, daily_pnl,
                               positions)
             approved == /\ a.ai.kind = "signal" /\ signal.decision # "HOLD"
                         /\ a.current_price > 0
                         /\ validation.outcome = "returned"
                         /\ validation.result.approved
                         /\ validation.result.order # None
         IN
         /\ ret.outcome = "returned"
         /\ ret.final_status \in
               {"FAILED_AT_AI_BRAIN", "HOLD", "FAILED_NO_PRICE",
                "REJECTED_BY_QUANT", "SIGNAL_GENERATED", "EXECUTED",
                "EXECUTION_FAILED"}
         /\ ret.final_status = "EXECUTED" <=>
               (approved /\ a.mode # "signal_only" /\ a.executed)
         /\ ret.final_status = "EXECUTED" =>
               /\ ret.order = validation.result.order
               /\ positions' =
                     DictSet(positions, last'.ticker,
                             NewPosition(last'.ticker, ret.order.quantity,
                                         ret.order.price, ret.order.stop_loss,
                                         ret.order.target, ret.order.side))
         /\ ret.final_status # "EXECUTED" => positions' = positions
         /\ (a.ai.kind = "signal" /\ signal.decision = "HOLD") =>
               ret.final_status = "HOLD"
         /\ (a.ai.kind = "signal" /\ signal.decision # "HOLD"
             /\ a.current_price <= 0) => ret.final_status = "FAILED_NO_PRICE"
         /\ (approved /\ a.mode = "signal_only") =>
               ret.final_status = "SIGNAL_GENERATED"
         /\ (approved /\ a.mode # "signal_only" /\ ~a.executed) =>
               ret.final_status = "EXECUTION_FAILED"
         /\ UNCHANGED <<portfolio_value, peak_value, daily_pnl>>
      ]_vars

\* an executed run registered a Position next to one that was open
C30_Witness_RegisteredAfterExecution ==
    /\ Executed
    /\ last.ticker \in DOMAIN positions
    /\ positions[last.ticker].quantity = last.ret.order.quantity
    /\ Cardinality(DOMAIN positions) = 2

\* the open positions as the RiskEngine and the PaperTrader hold them: the
\* same tickers, each with the same side and quantity
BooksAgree(pos, held) ==
    /\ DOMAIN pos = DOMAIN held
    /\ \A t \in DOMAIN pos :
          /\ pos[t].side = held[t].side
          /\ pos[t].quantity = held[t].quantity

\* C35: in paper mode the RiskEngine and the PaperTrader agree on the open
\* positions after every run: a run in paper mode that starts with the two
\* agreeing (as they do after construction) ends with the two agreeing, for
\* BUY and SELL signals on any ticker, a SELL on a held ticker included.
C35_EngineAndPaperTraderAgree ==
    [][(/\ last'.op = "run" /\ last'.arg.mode = "paper"
        /\ BooksAgree(positions, paper.positions)) =>
            BooksAgree(positions', paper'.positions)]_vars

\* C40: update_position and close_position for a ticker that has no open
\* Position change nothing: portfolio_value, peak_value, daily_pnl,
\* positions and the persisted document stay as they were (no write is
\* attempted, also when the document on disk is older than the memory);
\* update_position returns silently and close_position returns the error
\* record for the ticker.  Checked under Spec.
C40_NoPositionNoChange ==
    [][(last'.op \in {"update_position", "close_position"}) =>
           IF last'.ticker \notin DOMAIN positions
           THEN /\ UNCHANGED <<portfolio_value, peak_value, daily_pnl,
                               positions, state_file>>
                /\ last'.ret = IF last'.op = "update_position"
                               THEN "no_position" ELSE "error"
           ELSE last'.ret \notin {"no_position", "error"}
      ]_vars

\* close_position of a ticker not held, next to an open Position, with the
\* document on disk older than the memory
C40_Witness_CloseNotHeld ==
    /\ last.op = "close_position" /\ last.ret = "error"
    /\ last.ticker \notin DOMAIN positions
    /\ positions # NoPositions
    /\ state_file.kind = "doc"
    /\ state_file.doc # StateDoc(portfolio_value, peak_value, daily_pnl,
                                 positions)

(***************************************************************************)
(* SimpleBacktester._simulate_trades.  closes is the series of closing     *)
(* prices, bar 0 of the code being closes[1].  A return is the rational    *)
(* num / den percent, den > 0; the code's float arithmetic is taken as     *)
(* exact.                                                                  *)
(***************************************************************************)
Ret(num, den) == [num |-> num, den |-> den]

\* change_pct * entry_price: (current - entry_price) / entry_price * 100 for
\* BUY, (entry_price - current) / entry_price * 100 for SELL
ChangeTimesEntry(decision, entry_price, current) ==
    IF decision = "BUY" THEN (current - entry_price) * 100
    ELSE (entry_price - current) * 100

StopHitNever(decision, entry_price, current, stop_loss_pct) == FALSE

\* if change_pct <= stop_loss_pct
StopHit(decision, entry_price, current, stop_loss_pct) ==
    ChangeTimesEntry(decision, entry_price, current) <= stop_loss_pct * entry_price

\* elif change_pct >= target_pct
TargetHit(decision, entry_price, current, target_pct) ==
    ChangeTimesEntry(decision, entry_price, current) >= target_pct * entry_price

RECURSIVE HoldPeriod(_, _, _, _, _, _, _)
\* for j in range(1, stop): the trade entered at bar i, from bar i + j on;
\* stop_loss_pct and target_pct are the normalised values
HoldPeriod(closes, i, j, stop, decision, stop_loss_pct, target_pct) ==
    LET entry_price == closes[i + 1] IN
    IF j >= stop
    THEN \* the loop ended without a break: exit_price is the last close
         \* read, or entry_price when no bar was read
         [entry |-> i, exit |-> i + j - 1, hit |-> "none",
          ret |-> Ret(ChangeTimesEntry(decision, entry_price, closes[i + j]),
                      entry_price)]
    ELSE IF StopHit(decision, entry_price, closes[i + j + 1], stop_loss_pct)
    THEN [entry |-> i, exit |-> i + j, hit |-> "stop",
          ret |-> Ret(stop_loss_pct, 1)]
    ELSE IF TargetHit(decision, entry_price, closes[i + j + 1], target_pct)
    THEN [entry |-> i, exit |-> i + j, hit |-> "target",
          ret |-> Ret(target_pct, 1)]
    ELSE HoldPeriod(closes, i, j + 1, stop, decision, stop_loss_pct, target_pct)

EntriesToEnd(len, hold_days) == IF len <= 0 THEN 0 ELSE (len + 4) \div 5

\* the number of values of range(0, len(closes) - hold_days, 5)
Entries(len, hold_days) ==
    IF len - hold_days <= 0 THEN 0 ELSE (len - hold_days + 4) \div 5

\* the simulated trades, in the order of their entries; the returns the
\* code gives are their ret fields
_simulate_trades(closes, decision, stop_loss_pct, target_pct, hold_days) ==
    LET sl == -Abs(stop_loss_pct)
        tp == Abs(target_pct)
    IN [k \in 1..Entries(Len(closes), hold_days) |->
          LET i == (k - 1) * 5 IN
          HoldPeriod(closes, i, 1, Min(hold_days + 1, Len(closes) - i),
                     decision, sl, tp)]

_simulate_trades_call(closes, decision, stop_loss_pct, target_pct, hold_days) ==
    /\ last' = Call("_simulate_trades", "",
                    [closes |-> closes, decision |-> decision,
                     stop_loss_pct |-> stop_loss_pct, target_pct |-> target_pct,
                     hold_days |-> hold_days],
                    _simulate_trades(closes, decision, stop_loss_pct,
                                     target_pct, hold_days))
    /\ UNCHANGED <<paper, portfolio_value, peak_value, daily_pnl, positions, state_file,
                   start_value, realized_sum, ops, audit_log>>

MaxBars == 7

ClosePrices == {90, 100, 110}
RECURSIVE SeriesOfLen(_)
SeriesOfLen(n) ==
    IF n = 0 THEN {<<>>}
    ELSE {Append(s, p) : s \in SeriesOfLen(n - 1), p \in ClosePrices}
Series == UNION {SeriesOfLen(n) : n \in 0..MaxBars}
SimStops == {-15, 5}
SimTargets == {10, 25}
HoldDays == {1, 2}

\* one simulation per run
SimulateTrades ==
    /\ last.op = "init"
    /\ \E closes \in Series, decision \in {"BUY", "SELL"},
          stop_loss_pct \in SimStops, target_pct \in SimTargets,
          hold_days \in HoldDays :
          _simulate_trades_call(closes, decision, stop_loss_pct, target_pct,
                                hold_days)

NextSimulate == SimulateTrades

SpecSimulate == Init /\ [][NextSimulate]_vars

(***************************************************************************)
(* Properties of _simulate_trades, checked under SpecSimulate.             *)
(***************************************************************************)
Simulated == last.op = "_simulate_trades"

\* the move of bar b against a position entered at bar i, times the entry
\* price, in percent
Adverse(b, i) ==
    LET entry == last.arg.closes[i + 1]
        close == last.arg.closes[b + 1]
    IN IF last.arg.decision = "BUY" THEN (entry - close) * 100
       ELSE (close - entry) * 100

\* C31: every simulated trade exits at the first bar after its entry,
\* within hold_days bars, whose close has moved >= |stop_loss_pct| against
\* the position (return exactly -|stop_loss_pct|) or >= target_pct in its
\* favour (return exactly +target_pct), and otherwise at the close of the
\* hold_days-th bar; every recorded return lies in
\* [-|stop_loss_pct|, target_pct], for BUY and for SELL.
C31_ExitAtFirstCrossing ==
    Simulated =>
      LET a == last.arg
          stop == IF a.stop_loss_pct < 0 THEN -a.stop_loss_pct
                  ELSE a.stop_loss_pct
          target == IF a.target_pct < 0 THEN -a.target_pct ELSE a.target_pct
      IN
      \A k \in 1..Len(last.ret) :
        LET trade == last.ret[k]
            i == trade.entry
            entry == a.closes[i + 1]
            crossing == {b \in (i + 1)..(i + a.hold_days) :
                           \/ Adverse(b, i) >= stop * entry
                           \/ -Adverse(b, i) >= target * entry}
        IN
        /\ -stop * trade.ret.den <= trade.ret.num
        /\ trade.ret.num <= target * trade.ret.den
        /\ IF crossing = {}
           THEN /\ trade.exit = i + a.hold_days
                /\ trade.ret.num * entry
                     = -Adverse(i + a.hold_days, i) * trade.ret.den
           ELSE LET first == CHOOSE b \in crossing :
                                \A c \in crossing : b <= c
                IN /\ trade.exit = first
                   /\ IF Adverse(first, i) >= stop * entry
                      THEN trade.ret.num = -stop * trade.ret.den
                      ELSE trade.ret.num = target * trade.ret.den

\* a SELL stopped out at the second bar of three: the later fall to the
\* target does not count
C31_Witness_ShortStoppedOut ==
    /\ Simulated
    /\ last.arg.decision = "SELL"
    /\ last.arg.hold_days = 2
    /\ last.arg.stop_loss_pct = 5
    /\ last.arg.closes = <<100, 100, 110, 90>>
    /\ last.ret[1].ret = Ret(-5, 1)

\* C37: for each holding window h, _simulate_trades enters at bars 0, 5,
\* 10, ... strictly below len(series) - h, so every entry has h later bars
\* available and no bar beyond the end of the series is read; a series of
\* at most h bars yields no trade, and the trade count is
\* ceil((len(series) - h) / 5).
C37_EntriesEveryFiveBars ==
    Simulated =>
      LET len == Len(last.arg.closes)
          h == last.arg.hold_days
          n == Len(last.ret)
      IN
      /\ \A k \in 1..n :
            /\ last.ret[k].entry = 5 * (k - 1)
            /\ last.ret[k].entry < len - h
            /\ last.ret[k].exit <= len - 1
      /\ len <= h => n = 0
      /\ len > h => /\ 5 * n >= len - h
                     /\ 5 * (n - 1) < len - h

\* seven bars and a window of one bar: entries at bars 0 and 5
C37_Witness_TwoEntries ==
    /\ Simulated
    /\ Len(last.arg.closes) = 7
    /\ last.arg.hold_days = 1
    /\ Len(last.ret) = 2
    /\ last.ret[2].entry = 5

(***************************************************************************)
(* SimpleBacktester._compute_stats.  Returns are whole percents; win_rate  *)
(* is in thousandths, max_drawdown_pct in percent.  The means are exact    *)
(* rationals, and the Sharpe ratio is given by its sign and its square.    *)
(***************************************************************************)
RECURSIVE SumSeq(_)
SumSeq(s) == IF s = <<>> THEN 0 ELSE Head(s) + SumSeq(Tail(s))

\* round(a / b, 0) for a >= 0, b > 0, no tie arising
RoundDiv(a, b) == (2 * a + b) \div (2 * b)

IsWinOrFlat(r) == r >= 0

\* wins = [r for r in returns if r > 0]
IsWin(r) == r > 0

RECURSIVE MaxDrawdown(_, _, _, _)
\* the loop over returns, with cumulative, peak and max_dd as they stand
MaxDrawdown(returns, cumulative, peak, max_dd) ==
    IF returns = <<>> THEN max_dd
    ELSE LET c == cumulative + Head(returns)
             p == IF c > peak THEN c ELSE peak
             dd == p - c
         IN MaxDrawdown(Tail(returns), c, p, IF dd > max_dd THEN dd ELSE max_dd)

\* (avg_return / std_dev) * 252 ** 0.5 if std_dev > 0 else 0, for more than
\* one return; 0 for one return
Sharpe(returns) ==
    LET n == Len(returns)
        sum == SumSeq(returns)
        sumsq == SumSeq([k \in 1..n |-> returns[k] * returns[k]])
        dev == n * sumsq - sum * sum
    IN IF n > 1 /\ dev > 0
       THEN [sign |-> IF sum > 0 THEN 1 ELSE IF sum < 0 THEN -1 ELSE 0,
             square |-> Ret(252 * sum * sum * (n - 1), n * dev)]
       ELSE [sign |-> 0, square |-> Ret(0, 1)]

_compute_stats(returns) ==
    IF returns = <<>>
    THEN [win_rate |-> 0, avg_return_pct |-> Ret(0, 1),
          sharpe_ratio |-> [sign |-> 0, square |-> Ret(0, 1)],
          max_drawdown_pct |-> 0, trade_count |-> 0]
    ELSE LET wins == SelectSeq(returns, IsWin)
             losses == SelectSeq(returns, LAMBDA r : ~IsWin(r))
         IN [win_rate |-> RoundDiv(1000 * Len(wins), Len(returns)),
             avg_return_pct |-> Ret(SumSeq(returns), Len(returns)),
             sharpe_ratio |-> Sharpe(returns),
             max_drawdown_pct |-> MaxDrawdown(returns, 0, 0, 0),
             trade_count |-> Len(returns),
             avg_win |-> IF wins = <<>> THEN Ret(0, 1)
                         ELSE Ret(SumSeq(wins), Len(wins)),
             avg_loss |-> IF losses = <<>> THEN Ret(0, 1)
                          ELSE Ret(SumSeq(losses), Len(losses))]

_compute_stats_call(returns) ==
    /\ last' = Call("_compute_stats", "", returns, _compute_stats(returns))
    /\ UNCHANGED <<paper, portfolio_value, peak_value, daily_pnl, positions, state_file,
                   start_value, realized_sum, ops, audit_log>>

MaxReturns == 4

TradeReturns == {-5, 0, 3, 10}
RECURSIVE ReturnsOfLen(_)
ReturnsOfLen(n) ==
    IF n = 0 THEN {<<>>}
    ELSE {Append(s, r) : s \in ReturnsOfLen(n - 1), r \in TradeReturns}

\* one computation per run
ComputeStats ==
    /\ last.op = "init"
    /\ \E n \in 0..MaxReturns : \E returns \in ReturnsOfLen(n) :
          _compute_stats_call(returns)

NextStats == ComputeStats

SpecStats == Init /\ [][NextStats]_vars

(***************************************************************************)
(* Properties of _compute_stats, checked under SpecStats.                  *)
(***************************************************************************)
\* the sum of the first k returns of the last _compute_stats call
PrefixSum(k) == SumSeq(SubSeq(last.arg, 1, k))

\* the largest prefix sum up to k, the empty prefix (0) included
RunningMax(k) ==
    CHOOSE x \in {PrefixSum(j) : j \in 0..k} :
        \A y \in {PrefixSum(j) : j \in 0..k} : x >= y

\* C39: max_drawdown_pct is the largest drop of the running sum of the
\* returns below its running maximum, the maximum starting at 0 before the
\* first trade, and win_rate is the share of returns strictly greater than
\* 0, a zero return counting as a loss.
C39_DrawdownAndWinRate ==
    (last.op = "_compute_stats" /\ last.arg # <<>>) =>
      LET n == Len(last.arg)
          drops == {RunningMax(k) - PrefixSum(k) : k \in 1..n}
          positive == Cardinality({k \in 1..n : last.arg[k] > 0})
          off == 1000 * positive - last.ret.win_rate * n
      IN
      /\ last.ret.max_drawdown_pct \in drops
      /\ \A d \in drops : d <= last.ret.max_drawdown_pct
      /\ 2 * off <= n /\ -2 * off <= n
      /\ last.ret.trade_count = n

\* a first losing trade is drawdown and a zero return is no win
C39_Witness_LossFirst ==
    /\ last.op = "_compute_stats"
    /\ last.arg = <<-5, 0, 3>>
    /\ last.ret.max_drawdown_pct = 5
    /\ last.ret.win_rate = 333

(***************************************************************************)
(* The validating calls between the calls that change the portfolio.       *)
(***************************************************************************)
MaxFrameOps == 2

\* validate_and_size with the backtest skipped
ValidateAndSizeSkipping ==
    /\ ops < MaxFrameOps
    /\ \E signal \in ValidatorSignals :
          validate_and_size_call(signal, 1000, "AAA", TRUE,
                                 [kind |-> "fetch_error", bars |-> 0,
                                  windows |-> <<>>], "ok")

NextFrame ==
    \/ Register(MaxFrameOps, {"ok"})
    \/ Update(MaxFrameOps, {"ok"})
    \/ Close(MaxFrameOps, {"ok"})
    \/ ResetDaily(MaxFrameOps, {"ok"})
    \/ ValidateTrade
    \/ ValidateAndSizeSkipping

SpecFrame == Init /\ [][NextFrame]_vars

\* C32: validate_trade and validate_and_size never modify portfolio_value,
\* peak_value, daily_pnl or positions and never rewrite the persisted
\* state; an approval reserves nothing, and only register_position,
\* update_position, close_position and reset_daily change portfolio state.
C32_ValidationReadsOnly ==
    [][/\ last'.op \in {"validate_trade", "validate_and_size"} =>
            UNCHANGED <<portfolio_value, peak_value, daily_pnl, positions,
                        state_file>>
       /\ <<portfolio_value, peak_value, daily_pnl, positions>>'
             # <<portfolio_value, peak_value, daily_pnl, positions>> =>
            last'.op \in {"register_position", "update_position",
                          "close_position", "reset_daily"}
      ]_vars

\* an Order approved next to an open Position: the engine and its file are
\* as before the call
C32_Witness_ApprovedNothingReserved ==
    /\ last.op = "validate_and_size"
    /\ last.ret.outcome = "returned"
    /\ last.ret.result.order # None
    /\ positions # NoPositions
    /\ state_file.kind = "doc"
    /\ state_file.doc = StateDoc(portfolio_value, peak_value, daily_pnl,
                                 positions)

====
